---------------------------- MODULE Spec2Model ----------------------------
(***************************************************************************)
(* Model of the Alpine3D step coordinator, SnowpackInterface                *)
(* (src/Source/alpine3d/alpine3d/SnowpackInterface.cc).                     *)
(*                                                                         *)
(* The coordinator collects the forcing grids pushed by its producers       *)
(* (setMeteo, setRadiationComponents, setSnowMassChange, assimilate), and   *)
(* every accepted push ends in calcNextStep, which runs one simulation step *)
(* once all the data it waits for has arrived.                              *)
(*                                                                         *)
(* A call of the coordinator is atomic up to the point where calcNextStep   *)
(* has cleared the flags; the step itself (worker fan-out, special points,  *)
(* abort check, pushes to the consumers, output, clock advance) is a        *)
(* sequence of actions driven by pc, all inside the call that started it.   *)
(***************************************************************************)
EXTENDS Integers, Sequences, FiniteSets

(***************************************************************************)
(* Bounds of the model                                                      *)
(***************************************************************************)
\* number of worker slices (nbworkers of the constructor)
NbWorkers == 2
\* number of time steps the producers supply data for
MaxSteps == 2
\* number of distinct grid contents a producer may push
MaxGridVal == 1
\* number of processes of a distributed run (MPIControl::size())
NbProcs == 2
\* number of columns of the largest dem considered
MaxDimX == 5

(***************************************************************************)
(* Program constants                                                        *)
(***************************************************************************)
\* timeStep(dt_main/86400.): the fixed step duration, taken as the time unit
timeStep == 1
\* startTime of the constructor, the first expected timestamp
startTime == 0
\* IOUtils::nodata, the fill value of the grids after construction
nodata == -999

Workers == 0 .. (NbWorkers - 1)
\* the last timestamp of the run: the producers supply data for the steps before it
EndTime == startTime + MaxSteps * timeStep
\* the timestamps a producer may tag its data with
Timestamps == startTime .. EndTime
GridVals == 1 .. MaxGridVal
Ranks == 0 .. (NbProcs - 1)

\* a full-domain grid: its geolocation and (abstracted) cell contents
Grid(v) == [geo |-> "dem", val |-> v]
\* a grid handed in by a producer that does not match the dem
ForeignGrid(v) == [geo |-> "other", val |-> v]
isSameGeolocalization(g) == g.geo = "dem"

\* the special-point lists a run may be configured with (already in canonical order)
PtsConfigs == { <<>>, << <<0, 0>> >> }

\* no push recorded: a value no timestamp takes
NoPush == startTime - 1
NoInputs == [meteo |-> NoPush, da |-> NoPush, drift |-> NoPush, rad |-> NoPush]
\* no setter call has arrived during the step
NoArrival == [op |-> "none", ts |-> NoPush, res |-> "none"]

VARIABLES
    \* attached collaborators (NULL or not)
    drift, eb, da, runoff,
    \* readiness flags
    dataMeteo2D, dataDa, dataSnowDrift, dataRadiation,
    \* simulation clock
    nextStepTimestamp,
    \* coordinator-owned forcing grids
    psum, psum_ph, vw, rh, ta, mns, shortwave, longwave, diffuse, solarElevation,
    \* registered special points
    pts,
    \* position inside calcNextStep ("idle": no call in progress)
    pc,
    \* locals of the running step
    errCount,
    \* per worker: how often it was dispatched in the running step
    dispatched,
    \* workers whose runModel raised in the running step
    failed,
    \* what the running step has done so far, in order
    phases,
    \* per flag: the timestamp of the push that raised it (NoPush: not raised)
    pushedAt,
    \* the pushes the running step consumed
    stepInputs,
    \* the date the running step handed to writeOutput (NoPush: not called yet)
    outputDate,
    \* the last setter call that arrived while the step was running
    arrival,
    \* the current or most recent call: operation, timestamp argument, outcome,
    \* and whether it reached calcNextStep
    lastCall,
    \* --- the group of processes of a distributed run ---
    \* MPIControl::master_rank(), LOCAL_IO and the grids of GRIDS_PARAMETERS
    master_rank, do_io_locally, output_grids,
    \* the consumers the main program attaches on every process
    plan,
    \* per process: its position, the getGrid calls (or the receives) still to make
    \* in the routine it is in, and whether it waits inside allreduce_sum
    rpc, todo, inReduce,
    \* per process: the parameters of the reductions it has entered, in order
    reductions,
    \* per process: errCount of its step, its clock, its attached consumers
    rerr, rclock, rattached,
    \* per process: the collections it has sent to the master and that the master
    \* has not received yet, each with the step it was sent in
    channel,
    \* per process: the special-point outputs it has written, in order: whose
    \* points, in which of its steps, sent in which step of their process, and
    \* whether their .sno was written with them
    rwritten,
    \* per process: snow_poi_written
    rsnow_poi_written,
    \* the decomposition of a run: columns of the dem, processes, workers per process
    dimx, size, nbworkers,
    \* per process: how far it is (constructed, grid filled, grid reduced)
    lpc,
    \* per process: the slice of the dem it was given (startx, nx) and the slice
    \* computed for each of its workers (thread_startx, thread_nx)
    part, slices,
    \* per process and worker: whether the worker exists, and where its grid goes
    workers, worker_startx, worker_deltax,
    \* per process: the grid getGrid builds, each cell holding the workers whose
    \* values were put there; and what the reduction leaves in every process
    o_grid2D, summed,
    \* per process: the workers that report the requested parameter as not
    \* available, and the grid getGrid returns
    unavailable, returned,
    \* per process and worker: the special points handed to the worker
    worker_pts,
    \* GLACIER_KATABATIC_FLOW of the configuration
    glacier_katabatic_flow, snow_write,
    \* the points of interest handed to the constructor, where the constructor
    \* is with them, and the duplicates it has reported
    vec_pts, ppc, logged,
    \* the output of the special points: what every worker has buffered for its
    \* points, the .smet stream of every cell, the collections and the lines
    \* of the last write_special_points, the exceptions it has thrown so far,
    \* whether the .sno files of the points were written, and where the run is
    buffers, smet, snow_pixel, written, thrown, snow_poi_written, opc,
    \* the initial snow cover: the restart flag and the format of the profiles,
    \* the profiles on disk, and per process where readInitalSnowCover is, the
    \* slice it reads next, the stations it ends up with, the slices under way
    \* to it, and the slices sent and received so far
    is_restart, sno_type, profiles, ipc, reading, snow_stations, wire, sentTo, received,
    \* the coordinators of one process: per coordinator whether it is constructed
    \* or destroyed and the workers its member workers points to; per worker how
    \* often it was deleted
    cstate, held, released,
    \* the COSMO XML reader: where it is, its prefix of the file names, the sorted
    \* directory listing, the iterator into it and the entries the loop has looked
    \* at, the cache of the files; the period asked for, the index of the file to
    \* read and the end of its part, the files opened and the data of the station
    xpc, meteo_prefix, dirlist, iter, visited, cache_meteo_files,
    dateStart, dateEnd, file_idx, nextDate, meteofiles, vecMeteo

flags == <<dataMeteo2D, dataDa, dataSnowDrift, dataRadiation>>
attached == <<drift, eb, da, runoff>>
grids == <<psum, psum_ph, vw, rh, ta, mns, shortwave, longwave, diffuse, solarElevation>>
stepLocals == <<errCount, dispatched, failed, phases, stepInputs, outputDate, arrival>>
\* the process group
group == <<master_rank, do_io_locally, output_grids, plan, rpc, todo, inReduce,
           reductions, rerr, rclock, rattached, channel, rwritten,
           rsnow_poi_written>>
\* what the constructor of a process leaves behind
built == <<part, slices, workers, worker_startx, worker_deltax, worker_pts>>
\* the decomposition
layout == <<dimx, size, nbworkers, lpc, built, o_grid2D, summed, unavailable, returned>>
\* the configuration keys read once by readAndTweakConfig
settings == <<glacier_katabatic_flow, snow_write>>
\* the registration of the special points
registration == <<vec_pts, ppc, logged>>
\* the output of the special points
pointOutput == <<buffers, smet, snow_pixel, written, thrown, snow_poi_written, opc>>
\* the reader of the COSMO XML files
plugin == <<xpc, meteo_prefix, dirlist, iter, visited, cache_meteo_files,
            dateStart, dateEnd, file_idx, nextDate, meteofiles, vecMeteo>>
\* the coordinators and the workers they point to
lifecycle == <<cstate, held, released>>
\* the reading of the initial snow cover
initialState == <<is_restart, sno_type, profiles, ipc, reading, snow_stations, wire, sentTo,
                  received>>
\* what a call of the one coordinator followed in the actions below does not touch
elsewhere == <<group, layout, settings, registration, pointOutput, initialState,
    lifecycle, plugin>>
\* the one coordinator
coordinator == <<attached, flags, nextStepTimestamp, grids, pts, pc, stepLocals, pushedAt,
                 lastCall>>
\* what the processes of the group leave alone in the actions of the group
outsideGroup == <<coordinator, layout, settings, registration, pointOutput, initialState,
    lifecycle, plugin>>
\* what the constructor and getGrid leave alone in the actions of the decomposition
outsideLayout == <<coordinator, group, settings, registration, pointOutput, initialState,
    lifecycle, plugin>>
vars == <<coordinator, elsewhere>>

Call(op, ts, res, attempt) == [op |-> op, ts |-> ts, res |-> res, attempt |-> attempt]

NoStep ==
    /\ errCount = 0
    /\ dispatched = [w \in Workers |-> 0]
    /\ failed = {}
    /\ phases = <<>>
    /\ stepInputs = NoInputs
    /\ outputDate = NoPush
    /\ arrival = NoArrival

\* a run that does not read COSMO XML files
NoPlugin ==
    /\ xpc = "off" /\ meteo_prefix = <<>> /\ dirlist = <<>> /\ iter = 0 /\ visited = <<>>
    /\ cache_meteo_files = <<>> /\ dateStart = 0 /\ dateEnd = 0 /\ file_idx = 0
    /\ nextDate = 0 /\ meteofiles = <<>> /\ vecMeteo = <<>>

\* a run with the one coordinator of the process, constructed and never copied
NoLifecycle == cstate = <<>> /\ held = <<>> /\ released = <<>>

\* a run whose reading of the initial snow cover is not followed
NoInitialState ==
    /\ is_restart = FALSE /\ sno_type = "SMET" /\ profiles = <<>>
    /\ ipc = <<>> /\ reading = <<>> /\ snow_stations = <<>> /\ wire = <<>>
    /\ sentTo = <<>> /\ received = <<>>

\* a run in which the output of the special points is not followed
NoPointOutput ==
    /\ buffers = <<>> /\ smet = <<>> /\ snow_pixel = <<>> /\ written = <<>>
    /\ thrown = 0
    /\ snow_poi_written = FALSE /\ opc = "off"

\* the members of the coordinator after construction, pts being points
InitMembers(points) ==
    /\ drift = FALSE /\ eb = FALSE /\ da = FALSE /\ runoff = FALSE
    /\ dataMeteo2D = FALSE /\ dataDa = FALSE
    /\ dataSnowDrift = FALSE /\ dataRadiation = FALSE
    /\ nextStepTimestamp = startTime
    /\ psum = Grid(nodata) /\ psum_ph = Grid(nodata) /\ vw = Grid(nodata)
    /\ rh = Grid(nodata) /\ ta = Grid(nodata) /\ mns = Grid(nodata)
    /\ shortwave = Grid(nodata) /\ longwave = Grid(nodata) /\ diffuse = Grid(nodata)
    /\ solarElevation = 0
    /\ pts = points
    /\ pc = "idle"
    /\ NoStep
    /\ pushedAt = NoInputs
    /\ lastCall = Call("constructor", startTime, "returned", FALSE)

\* the coordinator after construction, the special points registered
InitCoordinator ==
    /\ \E points \in PtsConfigs : InitMembers(points)
    /\ vec_pts = pts /\ ppc = "registered" /\ logged = <<>>
    /\ NoPointOutput
    /\ NoInitialState
    /\ NoLifecycle
    /\ NoPlugin

\* SnGrids parameters that getGrid answers from the coordinator's own grids
ForcingParams == {"TA", "RH", "VW", "PSUM", "PSUM_PH", "ISWR", "ILWR"}
\* the grids handed to the drift consumer and to the energy balance
DriftGrids == <<"HS", "SP", "RG", "N3", "RB">>
AlbedoGrids == <<"TOP_ALB">>
\* the output grid lists a run may be configured with (kept sorted and unique)
OutputGridConfigs ==
    {<<>>, <<"HS">>, <<"HS", "TA">>,
     <<"HS", "ILWR", "ISWR", "PSUM", "PSUM_PH", "RH", "TA", "VW">>}
\* the three collections of the special points, in the order they are sent
PointCollections == <<"snow_pixel", "meteo_pixel", "surface_flux">>

\* every process of the group after construction, for a configuration of the run
InitGroup(mr, io, og, pl) ==
    /\ master_rank = mr /\ do_io_locally = io /\ output_grids = og /\ plan = pl
    /\ rpc = [p \in Ranks |-> "main"]
    /\ todo = [p \in Ranks |-> <<>>]
    /\ inReduce = [p \in Ranks |-> FALSE]
    /\ reductions = [p \in Ranks |-> <<>>]
    /\ rerr = [p \in Ranks |-> 0]
    /\ rclock = [p \in Ranks |-> startTime]
    /\ rattached = [p \in Ranks |-> [drift |-> FALSE, eb |-> FALSE]]
    /\ channel = [p \in Ranks |-> <<>>]
    /\ rwritten = [p \in Ranks |-> <<>>]
    /\ rsnow_poi_written = [p \in Ranks |-> FALSE]

\* a part of the partition utility: offset and length
Part(o, l) == [offset |-> o, length |-> l]

\* what getGrid returns: nothing yet, the empty grid, or a grid of the whole dem
NoGrid == [empty |-> TRUE, cells |-> <<>>, valid |-> FALSE]
EmptyGrid == [empty |-> TRUE, cells |-> <<>>, valid |-> TRUE]
FullGrid(c) == [empty |-> FALSE, cells |-> c, valid |-> TRUE]

\* the decomposition of a run before any process is constructed
InitLayout(dx, sz, nw) ==
    /\ dimx = dx /\ size = sz /\ nbworkers = nw
    /\ lpc = [p \in Ranks |-> "new"]
    /\ part = [p \in Ranks |-> Part(0, dx)]
    /\ slices = [p \in Ranks |-> <<>>]
    /\ workers = [p \in Ranks |-> <<>>]
    /\ worker_startx = [p \in Ranks |-> <<>>]
    /\ worker_deltax = [p \in Ranks |-> <<>>]
    /\ worker_pts = [p \in Ranks |-> <<>>]
    /\ o_grid2D = [p \in Ranks |-> <<>>]
    /\ summed = <<>>
    /\ unavailable = [p \in Ranks |-> {}]
    /\ returned = [p \in Ranks |-> NoGrid]

\* one coordinator is followed; the group and the decomposition keep the state
\* they are constructed with
Init ==
    /\ InitCoordinator
    /\ InitGroup(0, TRUE, <<>>, [drift |-> FALSE, eb |-> FALSE])
    /\ InitLayout(1, 1, 1)
    /\ glacier_katabatic_flow = FALSE /\ snow_write = FALSE

(***************************************************************************)
(* calcNextStep, lines 667-682: the step-attempt routine up to the point    *)
(* where the flags are cleared.  m, d, s, r are the four flags and pa the   *)
(* recorded pushes as the calling setter left them.                         *)
(***************************************************************************)
\* leaving the routine without a step: by return, or by a throw (res)
LeaveAttempt(op, timestamp, m, d, s, r, pa, res) ==
    /\ dataMeteo2D' = m /\ dataDa' = d /\ dataSnowDrift' = s /\ dataRadiation' = r
    /\ pushedAt' = pa
    /\ pc' = "idle"
    /\ lastCall' = Call(op, timestamp, res, TRUE)
    /\ UNCHANGED <<nextStepTimestamp, stepLocals>>

\* line 682 with dataDa left out of the chained assignment
ClearAndRun_KeepDa(op, timestamp, pa) ==
    /\ dataMeteo2D' = FALSE /\ dataDa' = (pa.da # NoPush)
    /\ dataSnowDrift' = FALSE /\ dataRadiation' = FALSE
    /\ pushedAt' = [NoInputs EXCEPT !.da = pa.da]
    /\ stepInputs' = pa
    /\ errCount' = 0
    /\ dispatched' = [w \in Workers |-> 0]
    /\ failed' = {}
    /\ phases' = <<>>
    /\ outputDate' = NoPush
    /\ arrival' = NoArrival
    /\ pc' = "fanout"
    /\ lastCall' = Call(op, timestamp, "running", TRUE)
    /\ UNCHANGED nextStepTimestamp

\* line 682 and the entry into the worker loop
ClearAndRun(op, timestamp, pa) ==
    /\ dataMeteo2D' = FALSE /\ dataDa' = FALSE
    /\ dataSnowDrift' = FALSE /\ dataRadiation' = FALSE
    /\ pushedAt' = NoInputs
    /\ stepInputs' = pa
    /\ errCount' = 0
    /\ dispatched' = [w \in Workers |-> 0]
    /\ failed' = {}
    /\ phases' = <<>>
    /\ outputDate' = NoPush
    /\ arrival' = NoArrival
    /\ pc' = "fanout"
    /\ lastCall' = Call(op, timestamp, "running", TRUE)
    /\ UNCHANGED nextStepTimestamp

\* calcNextStep without the snow-drift gate of line 673
calcNextStep_NoDriftGate(op, timestamp, m, d, s, r, pa) ==
    IF ~m \/ (da /\ ~d) \/ (eb /\ ~r)
    THEN LeaveAttempt(op, timestamp, m, d, s, r, pa, "returned")
    ELSE IF ~r
    THEN LeaveAttempt(op, timestamp, m, d, s, r, pa, "NoDataException")
    ELSE ClearAndRun(op, timestamp, pa)

\* calcNextStep waiting for all four flags, attached or not
calcNextStep_AllFlagsRequired(op, timestamp, m, d, s, r, pa) ==
    IF ~m \/ ~s \/ ~d \/ ~r
    THEN LeaveAttempt(op, timestamp, m, d, s, r, pa, "returned")
    ELSE ClearAndRun(op, timestamp, pa)

\* calcNextStep without the radiation check of lines 678-680
calcNextStep_NoRadiationCheck(op, timestamp, m, d, s, r, pa) ==
    IF ~m \/ (drift /\ ~s) \/ (da /\ ~d) \/ (eb /\ ~r)
    THEN LeaveAttempt(op, timestamp, m, d, s, r, pa, "returned")
    ELSE ClearAndRun(op, timestamp, pa)

calcNextStep(op, timestamp, m, d, s, r, pa) ==
    IF ~m \/ (drift /\ ~s) \/ (da /\ ~d) \/ (eb /\ ~r)
    THEN \* lines 670-676: data is still missing, return
         LeaveAttempt(op, timestamp, m, d, s, r, pa, "returned")
    ELSE IF ~r
    THEN \* lines 678-680
         LeaveAttempt(op, timestamp, m, d, s, r, pa, "NoDataException")
    ELSE ClearAndRun(op, timestamp, pa)

\* a setter's throw before it has stored anything
Reject(op, timestamp, exception) ==
    /\ lastCall' = Call(op, timestamp, exception, FALSE)
    /\ UNCHANGED <<flags, nextStepTimestamp, grids, pc, stepLocals, pushedAt>>

(***************************************************************************)
(* Attaching the collaborators, lines 432-478                               *)
(***************************************************************************)
setSnowDrift ==
    /\ pc = "idle"
    /\ drift' = TRUE
    /\ UNCHANGED <<eb, da, runoff, flags, nextStepTimestamp, grids, pts, pc,
                   stepLocals, pushedAt, lastCall, elsewhere>>

setEnergyBalance ==
    /\ pc = "idle"
    /\ eb' = TRUE
    /\ UNCHANGED <<drift, da, runoff, flags, nextStepTimestamp, grids, pts, pc,
                   stepLocals, pushedAt, lastCall, elsewhere>>

setDataAssimilation ==
    /\ pc = "idle"
    /\ da' = TRUE
    /\ UNCHANGED <<drift, eb, runoff, flags, nextStepTimestamp, grids, pts, pc,
                   stepLocals, pushedAt, lastCall, elsewhere>>

setRunoff ==
    /\ pc = "idle"
    /\ runoff' = TRUE
    /\ UNCHANGED <<drift, eb, da, flags, nextStepTimestamp, grids, pts, pc,
                   stepLocals, pushedAt, lastCall, elsewhere>>

(***************************************************************************)
(* The producer setters, lines 486-614                                      *)
(***************************************************************************)
assimilate(timestamp) ==
    /\ pc = "idle"
    /\ UNCHANGED <<attached, pts, elsewhere>>
    /\ IF nextStepTimestamp # timestamp
       THEN Reject("assimilate", timestamp, "InvalidArgumentException")
       ELSE /\ UNCHANGED grids
            /\ calcNextStep("assimilate", timestamp,
                            dataMeteo2D, TRUE, dataSnowDrift, dataRadiation,
                            [pushedAt EXCEPT !.da = timestamp])

\* setSnowMassChange storing the grid before it checks the timestamp
setSnowMassChange_StoreBeforeCheck(new_mns, timestamp) ==
    /\ pc = "idle"
    /\ UNCHANGED <<attached, pts, elsewhere>>
    /\ mns' = new_mns
    /\ UNCHANGED <<psum, psum_ph, vw, rh, ta, shortwave, longwave, diffuse, solarElevation>>
    /\ IF nextStepTimestamp # timestamp
       THEN /\ lastCall' = Call("setSnowMassChange", timestamp,
                                "InvalidArgumentException", FALSE)
            /\ UNCHANGED <<flags, nextStepTimestamp, pc, stepLocals, pushedAt>>
       ELSE calcNextStep("setSnowMassChange", timestamp,
                         dataMeteo2D, dataDa, TRUE, dataRadiation,
                         [pushedAt EXCEPT !.drift = timestamp])

setSnowMassChange(new_mns, timestamp) ==
    /\ pc = "idle"
    /\ UNCHANGED <<attached, pts, elsewhere>>
    /\ IF nextStepTimestamp # timestamp
       THEN Reject("setSnowMassChange", timestamp, "InvalidArgumentException")
       ELSE IF ~isSameGeolocalization(new_mns)
       THEN Reject("setSnowMassChange", timestamp, "IndexOutOfBoundsException")
       ELSE /\ mns' = new_mns
            /\ UNCHANGED <<psum, psum_ph, vw, rh, ta, shortwave, longwave, diffuse,
                           solarElevation>>
            /\ calcNextStep("setSnowMassChange", timestamp,
                            dataMeteo2D, dataDa, TRUE, dataRadiation,
                            [pushedAt EXCEPT !.drift = timestamp])

\* what the glacier module may make of an air temperature grid under katabatic
\* flow: the grid itself, or the grid cooled down
correctTemperatures(new_ta) == {new_ta, [new_ta EXCEPT !.val = @ - 1]}

\* lines 576-583: the air temperature setMeteo stores
storeTa(new_ta) ==
    IF ~glacier_katabatic_flow
    THEN ta' = new_ta
    ELSE ta' \in correctTemperatures(new_ta)

\* setMeteo raising its flag before it checks the timestamp
setMeteo_FlagBeforeCheck(new_psum, new_psum_ph, new_vw, new_rh, new_ta, timestamp) ==
    /\ pc = "idle"
    /\ UNCHANGED <<attached, pts, elsewhere>>
    /\ IF nextStepTimestamp # timestamp
       THEN /\ dataMeteo2D' = TRUE
            /\ pushedAt' = [pushedAt EXCEPT !.meteo = timestamp]
            /\ lastCall' = Call("setMeteo", timestamp, "InvalidArgumentException", FALSE)
            /\ UNCHANGED <<dataDa, dataSnowDrift, dataRadiation, nextStepTimestamp,
                           grids, pc, stepLocals>>
       ELSE /\ psum' = new_psum
            /\ psum_ph' = new_psum_ph
            /\ vw' = new_vw
            /\ rh' = new_rh
            /\ storeTa(new_ta)
            /\ UNCHANGED <<mns, shortwave, longwave, diffuse, solarElevation>>
            /\ calcNextStep("setMeteo", timestamp,
                            TRUE, dataDa, dataSnowDrift, dataRadiation,
                            [pushedAt EXCEPT !.meteo = timestamp])

\* MASK_DYNAMIC only refreshes the glacier mask, which no other call followed here reads
setMeteo(new_psum, new_psum_ph, new_vw, new_rh, new_ta, timestamp) ==
    /\ pc = "idle"
    /\ UNCHANGED <<attached, pts, elsewhere>>
    /\ IF nextStepTimestamp # timestamp
       THEN Reject("setMeteo", timestamp, "InvalidArgumentException")
       ELSE /\ psum' = new_psum
            /\ psum_ph' = new_psum_ph
            /\ vw' = new_vw
            /\ rh' = new_rh
            /\ storeTa(new_ta)
            /\ UNCHANGED <<mns, shortwave, longwave, diffuse, solarElevation>>
            /\ calcNextStep("setMeteo", timestamp,
                            TRUE, dataDa, dataSnowDrift, dataRadiation,
                            [pushedAt EXCEPT !.meteo = timestamp])

\* the arguments are bare arrays: only the contents of the stored grids change
setRadiationComponents(shortwave_in, longwave_in, diff_in, solarElevation_in, timestamp) ==
    /\ pc = "idle"
    /\ UNCHANGED <<attached, pts, elsewhere>>
    /\ IF nextStepTimestamp # timestamp
       THEN Reject("setRadiationComponents", timestamp, "InvalidArgumentException")
       ELSE /\ shortwave' = [shortwave EXCEPT !.val = shortwave_in]
            /\ longwave' = [longwave EXCEPT !.val = longwave_in]
            /\ diffuse' = [diffuse EXCEPT !.val = diff_in]
            /\ solarElevation' = solarElevation_in
            /\ UNCHANGED <<psum, psum_ph, vw, rh, ta, mns>>
            /\ calcNextStep("setRadiationComponents", timestamp,
                            dataMeteo2D, dataDa, dataSnowDrift, TRUE,
                            [pushedAt EXCEPT !.rad = timestamp])

(***************************************************************************)
(* The step, calcNextStep lines 684-739                                     *)
(***************************************************************************)
StepFrame == UNCHANGED <<attached, flags, grids, pts, pushedAt, elsewhere>>

\* leaving calcNextStep: its locals are gone
ExitStep ==
    /\ errCount' = 0
    /\ dispatched' = [w \in Workers |-> 0]
    /\ failed' = {}
    /\ phases' = <<>>
    /\ stepInputs' = NoInputs
    /\ outputDate' = NoPush
    /\ arrival' = NoArrival

\* the worker loop without the try/catch: a throw leaves the loop
runModel_Uncaught(ii, throws) ==
    /\ pc = "fanout"
    /\ dispatched[ii] = 0
    /\ dispatched' = [dispatched EXCEPT ![ii] = @ + 1]
    /\ errCount' = IF throws THEN errCount + 1 ELSE errCount
    /\ failed' = IF throws THEN failed \cup {ii} ELSE failed
    /\ IF throws \/ \A w \in Workers : dispatched'[w] > 0
       THEN pc' = "points" /\ phases' = Append(phases, "runModel")
       ELSE pc' = "fanout" /\ phases' = phases
    /\ UNCHANGED <<nextStepTimestamp, stepInputs, outputDate, arrival, lastCall>>
    /\ StepFrame

\* lines 688-708: one iteration of the parallel loop; the iterations run in any
\* order, and the loop is left when all of them are done
runModel(ii, throws) ==
    /\ pc = "fanout"
    /\ dispatched[ii] = 0
    /\ dispatched' = [dispatched EXCEPT ![ii] = @ + 1]
    /\ errCount' = IF throws THEN errCount + 1 ELSE errCount
    /\ failed' = IF throws THEN failed \cup {ii} ELSE failed
    /\ IF \A w \in Workers : dispatched'[w] > 0
       THEN pc' = "points" /\ phases' = Append(phases, "runModel")
       ELSE pc' = "fanout" /\ phases' = phases
    /\ UNCHANGED <<nextStepTimestamp, stepInputs, outputDate, arrival, lastCall>>
    /\ StepFrame

\* the special points written only when no worker failed (abort check moved up)
write_special_points_OnlyOnSuccess(opens) ==
    /\ pc = "points"
    /\ IF pts = <<>> \/ errCount > 0
       THEN /\ pc' = "check"
            /\ UNCHANGED <<stepLocals, lastCall>>
       ELSE IF opens
       THEN /\ pc' = "check"
            /\ phases' = Append(phases, "write_special_points")
            /\ UNCHANGED <<errCount, dispatched, failed, stepInputs, outputDate, arrival, lastCall>>
       ELSE /\ pc' = "idle"
            /\ lastCall' = [lastCall EXCEPT !.res = "AccessException"]
            /\ ExitStep
    /\ UNCHANGED nextStepTimestamp
    /\ StepFrame

\* line 711 with lines 741-811, 864-900: the output of the special points, which
\* throws when a point's file cannot be opened
write_special_points(opens) ==
    /\ pc = "points"
    /\ IF pts = <<>>
       THEN /\ pc' = "check"
            /\ UNCHANGED <<stepLocals, lastCall>>
       ELSE IF opens
       THEN /\ pc' = "check"
            /\ phases' = Append(phases, "write_special_points")
            /\ UNCHANGED <<errCount, dispatched, failed, stepInputs, outputDate, arrival, lastCall>>
       ELSE /\ pc' = "idle"
            /\ lastCall' = [lastCall EXCEPT !.res = "AccessException"]
            /\ ExitStep
    /\ UNCHANGED nextStepTimestamp
    /\ StepFrame

\* the failure count ignored: no abort
abortCheck_Ignored ==
    /\ pc = "check"
    /\ pc' = "drift" /\ lastCall' = lastCall
    /\ UNCHANGED <<nextStepTimestamp, stepLocals>>
    /\ StepFrame

\* lines 713-714
abortCheck ==
    /\ pc = "check"
    /\ IF errCount > 0
       THEN pc' = "aborted" /\ lastCall' = [lastCall EXCEPT !.res = "abort"]
       ELSE pc' = "drift" /\ lastCall' = lastCall
    /\ UNCHANGED <<nextStepTimestamp, stepLocals>>
    /\ StepFrame

\* lines 717-724
pushSnowSurfaceData ==
    /\ pc = "drift"
    /\ pc' = "eb"
    /\ phases' = IF drift THEN Append(phases, "setSnowSurfaceData") ELSE phases
    /\ UNCHANGED <<nextStepTimestamp, errCount, dispatched, failed, stepInputs, outputDate,
                   arrival, lastCall>>
    /\ StepFrame

\* lines 727-730
pushAlbedo ==
    /\ pc = "eb"
    /\ pc' = "output"
    /\ phases' = IF eb THEN Append(phases, "setAlbedo") ELSE phases
    /\ UNCHANGED <<nextStepTimestamp, errCount, dispatched, failed, stepInputs, outputDate,
                   arrival, lastCall>>
    /\ StepFrame

\* the output made for the date the clock will show after the step
writeOutput_NextDate ==
    /\ pc = "output"
    /\ pc' = "advance"
    /\ phases' = IF runoff THEN phases \o <<"writeOutput", "runoff">>
                           ELSE Append(phases, "writeOutput")
    /\ outputDate' = nextStepTimestamp + timeStep
    /\ UNCHANGED <<nextStepTimestamp, errCount, dispatched, failed, stepInputs, arrival,
                   lastCall>>
    /\ StepFrame

\* line 733 with lines 340-368: writeOutput(nextStepTimestamp), which hands the
\* date to the grid writer and, with a runoff module attached, to runoff->output
writeOutput ==
    /\ pc = "output"
    /\ pc' = "advance"
    /\ phases' = IF runoff THEN phases \o <<"writeOutput", "runoff">>
                           ELSE Append(phases, "writeOutput")
    /\ outputDate' = nextStepTimestamp
    /\ UNCHANGED <<nextStepTimestamp, errCount, dispatched, failed, stepInputs, arrival,
                   lastCall>>
    /\ StepFrame

\* the clock advanced by two step durations
advanceClock_Twice ==
    /\ pc = "advance"
    /\ nextStepTimestamp' = nextStepTimestamp + 2 * timeStep
    /\ pc' = "idle"
    /\ lastCall' = [lastCall EXCEPT !.res = "returned"]
    /\ ExitStep
    /\ StepFrame

\* line 738, and the return to the setter's caller
advanceClock ==
    /\ pc = "advance"
    /\ nextStepTimestamp' = nextStepTimestamp + timeStep
    /\ pc' = "idle"
    /\ lastCall' = [lastCall EXCEPT !.res = "returned"]
    /\ ExitStep
    /\ StepFrame

(***************************************************************************)
(* A setter called while a step is running.  The setters and calcNextStep   *)
(* test nothing but the timestamp and the flags (lines 489, 531, 562, 599,  *)
(* 670-680): a call made by another thread of the caller, or by a consumer  *)
(* from inside the push of lines 723 and 729, runs the same code as a call  *)
(* between two steps.  Each such call is taken as one atomic step here.     *)
(***************************************************************************)
InStepFrame ==
    UNCHANGED <<attached, pts, nextStepTimestamp, errCount, dispatched, failed, phases,
                stepInputs, outputDate, lastCall, elsewhere>>

Arrival(op, ts, res) == [op |-> op, ts |-> ts, res |-> res]

\* the throw of a setter called during the step
RejectInStep(op, timestamp, exception) ==
    /\ arrival' = Arrival(op, timestamp, exception)
    /\ UNCHANGED <<flags, grids, pc, pushedAt>>

\* calcNextStep entered from a call made during the step: it returns or throws
\* as in lines 670-680, or it finds every flag it waits for raised, clears the
\* flags and enters the worker loop a second time while the first step runs
calcNextStepInStep(op, timestamp, m, d, s, r, pa) ==
    IF ~m \/ (drift /\ ~s) \/ (da /\ ~d) \/ (eb /\ ~r)
    THEN /\ dataMeteo2D' = m /\ dataDa' = d /\ dataSnowDrift' = s /\ dataRadiation' = r
         /\ pushedAt' = pa
         /\ arrival' = Arrival(op, timestamp, "returned")
         /\ pc' = pc
    ELSE IF ~r
    THEN /\ dataMeteo2D' = m /\ dataDa' = d /\ dataSnowDrift' = s /\ dataRadiation' = r
         /\ pushedAt' = pa
         /\ arrival' = Arrival(op, timestamp, "NoDataException")
         /\ pc' = pc
    ELSE /\ dataMeteo2D' = FALSE /\ dataDa' = FALSE
         /\ dataSnowDrift' = FALSE /\ dataRadiation' = FALSE
         /\ pushedAt' = NoInputs
         /\ arrival' = Arrival(op, timestamp, "running")
         /\ pc' = "overlap"

assimilateInStep(timestamp) ==
    /\ pc \in {"fanout", "points", "check", "drift", "eb", "output", "advance"}
    /\ InStepFrame
    /\ IF nextStepTimestamp # timestamp
       THEN RejectInStep("assimilate", timestamp, "InvalidArgumentException")
       ELSE /\ UNCHANGED grids
            /\ calcNextStepInStep("assimilate", timestamp,
                                  dataMeteo2D, TRUE, dataSnowDrift, dataRadiation,
                                  [pushedAt EXCEPT !.da = timestamp])

setSnowMassChangeInStep(new_mns, timestamp) ==
    /\ pc \in {"fanout", "points", "check", "drift", "eb", "output", "advance"}
    /\ InStepFrame
    /\ IF nextStepTimestamp # timestamp
       THEN RejectInStep("setSnowMassChange", timestamp, "InvalidArgumentException")
       ELSE IF ~isSameGeolocalization(new_mns)
       THEN RejectInStep("setSnowMassChange", timestamp, "IndexOutOfBoundsException")
       ELSE /\ mns' = new_mns
            /\ UNCHANGED <<psum, psum_ph, vw, rh, ta, shortwave, longwave, diffuse,
                           solarElevation>>
            /\ calcNextStepInStep("setSnowMassChange", timestamp,
                                  dataMeteo2D, dataDa, TRUE, dataRadiation,
                                  [pushedAt EXCEPT !.drift = timestamp])

setMeteoInStep(new_psum, new_psum_ph, new_vw, new_rh, new_ta, timestamp) ==
    /\ pc \in {"fanout", "points", "check", "drift", "eb", "output", "advance"}
    /\ InStepFrame
    /\ IF nextStepTimestamp # timestamp
       THEN RejectInStep("setMeteo", timestamp, "InvalidArgumentException")
       ELSE /\ psum' = new_psum
            /\ psum_ph' = new_psum_ph
            /\ vw' = new_vw
            /\ rh' = new_rh
            /\ storeTa(new_ta)
            /\ UNCHANGED <<mns, shortwave, longwave, diffuse, solarElevation>>
            /\ calcNextStepInStep("setMeteo", timestamp,
                                  TRUE, dataDa, dataSnowDrift, dataRadiation,
                                  [pushedAt EXCEPT !.meteo = timestamp])

setRadiationComponentsInStep(shortwave_in, longwave_in, diff_in, solarElevation_in, timestamp) ==
    /\ pc \in {"fanout", "points", "check", "drift", "eb", "output", "advance"}
    /\ InStepFrame
    /\ IF nextStepTimestamp # timestamp
       THEN RejectInStep("setRadiationComponents", timestamp, "InvalidArgumentException")
       ELSE /\ shortwave' = [shortwave EXCEPT !.val = shortwave_in]
            /\ longwave' = [longwave EXCEPT !.val = longwave_in]
            /\ diffuse' = [diffuse EXCEPT !.val = diff_in]
            /\ solarElevation' = solarElevation_in
            /\ UNCHANGED <<psum, psum_ph, vw, rh, ta, mns>>
            /\ calcNextStepInStep("setRadiationComponents", timestamp,
                                  dataMeteo2D, dataDa, dataSnowDrift, TRUE,
                                  [pushedAt EXCEPT !.rad = timestamp])

(***************************************************************************)
(* The producers push data for the timestamps before EndTime; each call     *)
(* draws its grids from the bounded sets.                                   *)
(***************************************************************************)
Supplying == nextStepTimestamp < EndTime

Next ==
    \/ setSnowDrift
    \/ setEnergyBalance
    \/ setDataAssimilation
    \/ setRunoff
    \/ \E t \in Timestamps : Supplying /\ assimilate(t)
    \/ \E t \in Timestamps, v \in GridVals :
          Supplying /\ setSnowMassChange(Grid(v), t)
    \/ \E t \in Timestamps, v \in GridVals :
          Supplying /\ setSnowMassChange(ForeignGrid(v), t)
    \/ \E t \in Timestamps, v \in GridVals :
          Supplying /\ setMeteo(Grid(v), Grid(v), Grid(v), Grid(v), Grid(v), t)
    \/ \E t \in Timestamps, v \in GridVals :
          Supplying /\ setRadiationComponents(v, v, v, v, t)
    \/ \E ii \in Workers, throws \in BOOLEAN : runModel(ii, throws)
    \/ \E opens \in BOOLEAN : write_special_points(opens)
    \/ abortCheck
    \/ pushSnowSurfaceData
    \/ pushAlbedo
    \/ writeOutput
    \/ advanceClock

Spec == Init /\ [][Next]_vars

(***************************************************************************)
(* The coordinator with producers that do not wait for the end of a step    *)
(***************************************************************************)
\* the producers push for the timestamps before EndTime, and at most one of their
\* calls arrives during one step
Arriving == Supplying /\ arrival = NoArrival

NextAsync ==
    \/ Next
    \/ \E t \in Timestamps : Arriving /\ assimilateInStep(t)
    \/ \E t \in Timestamps, v \in GridVals :
          Arriving /\ setSnowMassChangeInStep(Grid(v), t)
    \/ \E t \in Timestamps, v \in GridVals :
          Arriving /\ setSnowMassChangeInStep(ForeignGrid(v), t)
    \/ \E t \in Timestamps, v \in GridVals :
          Arriving /\ setMeteoInStep(Grid(v), Grid(v), Grid(v), Grid(v), Grid(v), t)
    \/ \E t \in Timestamps, v \in GridVals :
          Arriving /\ setRadiationComponentsInStep(v, v, v, v, t)

SpecAsync == Init /\ [][NextAsync]_vars

(***************************************************************************)
(* The coordinator under every value of GLACIER_KATABATIC_FLOW, with the    *)
(* producers handing over grids that differ from each other and grids that  *)
(* do not lie on the dem.                                                   *)
(***************************************************************************)

\* ISWR answered with the diffuse radiation
getGridDirect_DiffuseAsISWR(param) ==
    CASE param = "TA" -> ta
      [] param = "RH" -> rh
      [] param = "VW" -> vw
      [] param = "PSUM" -> psum
      [] param = "PSUM_PH" -> psum_ph
      [] param = "ISWR" -> diffuse
      [] param = "ILWR" -> longwave
\* getGrid for the parameters it answers from the coordinator's own grids
getGridDirect(param) ==
    CASE param = "TA" -> ta
      [] param = "RH" -> rh
      [] param = "VW" -> vw
      [] param = "PSUM" -> psum
      [] param = "PSUM_PH" -> psum_ph
      [] param = "ISWR" -> shortwave
      [] param = "ILWR" -> longwave

InitConfig ==
    /\ InitCoordinator
    /\ InitGroup(0, TRUE, <<>>, [drift |-> FALSE, eb |-> FALSE])
    /\ InitLayout(1, 1, 1)
    /\ glacier_katabatic_flow \in BOOLEAN /\ snow_write = FALSE

NextConfig ==
    \/ setSnowDrift
    \/ setEnergyBalance
    \/ setDataAssimilation
    \/ setRunoff
    \/ \E t \in Timestamps : Supplying /\ assimilate(t)
    \/ \E t \in Timestamps, v \in GridVals :
          Supplying /\ setSnowMassChange(Grid(v), t)
    \/ \E t \in Timestamps, v \in GridVals :
          Supplying /\ setSnowMassChange(ForeignGrid(v), t)
    \/ \E t \in Timestamps, v \in GridVals :
          Supplying /\ setMeteo(Grid(v), Grid(v + 1), Grid(v + 2), Grid(v + 3), Grid(v + 4), t)
    \/ \E t \in Timestamps, v \in GridVals :
          Supplying /\ setMeteo(ForeignGrid(v), ForeignGrid(v + 1), ForeignGrid(v + 2),
                                ForeignGrid(v + 3), ForeignGrid(v + 4), t)
    \/ \E t \in Timestamps, v \in GridVals :
          Supplying /\ setRadiationComponents(v, v + 1, v + 2, v + 3, t)
    \/ \E ii \in Workers, throws \in BOOLEAN : runModel(ii, throws)
    \/ \E opens \in BOOLEAN : write_special_points(opens)
    \/ abortCheck
    \/ pushSnowSurfaceData
    \/ pushAlbedo
    \/ writeOutput
    \/ advanceClock

SpecConfig == InitConfig /\ [][NextConfig]_vars

(***************************************************************************)
(* The process group.  Every process of a distributed run executes the     *)
(* same program on its own coordinator; what the processes share are the   *)
(* collective reductions of getGrid and the messages of the special-point  *)
(* output.  Per process p: rpc[p] is its position, todo[p] the grids (or   *)
(* the sender ranks) it still has to go through in the current phase,      *)
(* rerr[p] the failure count of its worker loop, rclock[p] its clock,      *)
(* reductions[p] the reductions it has entered so far, inReduce[p] whether *)
(* it is inside one, channel[p] the messages it sent to the master that    *)
(* were not received yet.                                                  *)
(***************************************************************************)
groupConfig == <<master_rank, do_io_locally, output_grids, plan>>

\* setSnowDrift: remember the consumer and hand it the five grids of the surface
setSnowDriftAt(p) ==
    /\ rpc[p] = "main" /\ rclock[p] = startTime
    /\ plan.drift /\ ~rattached[p].drift
    /\ rattached' = [rattached EXCEPT ![p].drift = TRUE]
    /\ rpc' = [rpc EXCEPT ![p] = "attach"]
    /\ todo' = [todo EXCEPT ![p] = DriftGrids]
    /\ UNCHANGED <<groupConfig, inReduce, reductions, rerr, rclock, channel, rwritten, rsnow_poi_written,
                   outsideGroup>>

\* setEnergyBalance: remember the consumer and hand it the albedo
setEnergyBalanceAt(p) ==
    /\ rpc[p] = "main" /\ rclock[p] = startTime
    /\ plan.drift => rattached[p].drift
    /\ plan.eb /\ ~rattached[p].eb
    /\ rattached' = [rattached EXCEPT ![p].eb = TRUE]
    /\ rpc' = [rpc EXCEPT ![p] = "attach"]
    /\ todo' = [todo EXCEPT ![p] = AlbedoGrids]
    /\ UNCHANGED <<groupConfig, inReduce, reductions, rerr, rclock, channel, rwritten, rsnow_poi_written,
                   outsideGroup>>

\* the attach call returns once its grids were handed over
attachReturnsAt(p) ==
    /\ rpc[p] = "attach" /\ todo[p] = <<>>
    /\ rpc' = [rpc EXCEPT ![p] = "main"]
    /\ UNCHANGED <<groupConfig, todo, inReduce, reductions, rerr, rclock, rattached,
                   channel, rwritten, rsnow_poi_written,
                   outsideGroup>>

\* every parameter spliced from the workers and reduced
getGridAt_ReduceAlways(p) ==
    /\ rpc[p] \in {"attach", "drift", "eb", "output"}
    /\ todo[p] # <<>> /\ ~inReduce[p]
    /\ reductions' = [reductions EXCEPT ![p] = Append(@, Head(todo[p]))]
    /\ inReduce' = [inReduce EXCEPT ![p] = TRUE]
    /\ UNCHANGED <<groupConfig, todo, rpc, rerr, rclock, rattached, channel, rwritten, rsnow_poi_written,
                   outsideGroup>>

\* getGrid up to the reduction: a forcing parameter is returned from the
\* coordinator's own grid, any other is spliced from the workers and reduced
getGridAt(p) ==
    /\ rpc[p] \in {"attach", "drift", "eb", "output"}
    /\ todo[p] # <<>> /\ ~inReduce[p]
    /\ IF Head(todo[p]) \in ForcingParams
       THEN /\ todo' = [todo EXCEPT ![p] = Tail(@)]
            /\ UNCHANGED <<reductions, inReduce>>
       ELSE /\ reductions' = [reductions EXCEPT ![p] = Append(@, Head(todo[p]))]
            /\ inReduce' = [inReduce EXCEPT ![p] = TRUE]
            /\ UNCHANGED todo
    /\ UNCHANGED <<groupConfig, rpc, rerr, rclock, rattached, channel, rwritten, rsnow_poi_written,
                   outsideGroup>>

\* the collective sum returns when every process of the group has entered it
allreduce_sum(p) ==
    /\ inReduce[p]
    /\ \A q \in Ranks : Len(reductions[q]) >= Len(reductions[p])
    /\ inReduce' = [inReduce EXCEPT ![p] = FALSE]
    /\ todo' = [todo EXCEPT ![p] = Tail(@)]
    /\ UNCHANGED <<groupConfig, rpc, reductions, rerr, rclock, rattached, channel, rwritten, rsnow_poi_written,
                   outsideGroup>>

\* calcNextStep finds the pushes of this process complete and starts the step
calcNextStepAt(p) ==
    /\ rpc[p] = "main" /\ rclock[p] < EndTime
    /\ plan.drift => rattached[p].drift
    /\ plan.eb => rattached[p].eb
    /\ rpc' = [rpc EXCEPT ![p] = "fanout"]
    /\ rerr' = [rerr EXCEPT ![p] = 0]
    /\ UNCHANGED <<groupConfig, todo, inReduce, reductions, rclock, rattached, channel, rwritten, rsnow_poi_written,
                   outsideGroup>>

\* the worker loop of the process: raised is the number of workers that raised
runModelAt(p, raised) ==
    /\ rpc[p] = "fanout"
    /\ rerr' = [rerr EXCEPT ![p] = raised]
    /\ rpc' = [rpc EXCEPT ![p] = "points"]
    /\ UNCHANGED <<groupConfig, todo, inReduce, reductions, rclock, rattached, channel, rwritten, rsnow_poi_written,
                   outsideGroup>>

\* the ranks the master receives from, in the order of its loop
Senders == [i \in 1 .. (NbProcs - 1) |-> IF i - 1 < master_rank THEN i - 1 ELSE i]
AfterGather(rest) == IF rest = <<>> THEN "check" ELSE "gather"
\* the .sno files are written with the special points only once, and not if the
\* run writes them anyway at its checkpoints
writeSnowCoverDue(p) == ~snow_write /\ ~rsnow_poi_written[p]
\* the three collections a process sends for its step of date t, in this order
Collections(t) == [k \in 1 .. Len(PointCollections) |-> [coll |-> PointCollections[k], at |-> t]]

\* write_special_points: written locally, or sent to the master, or (on the
\* master) written and then gathered; opened tells whether the files could be
\* opened, and an exception leaves calcNextStep
write_special_pointsAt(p, opened) ==
    /\ rpc[p] = "points"
    /\ IF pts = <<>>
       THEN /\ rpc' = [rpc EXCEPT ![p] = "check"]
            /\ UNCHANGED <<todo, channel, rerr, rwritten, rsnow_poi_written>>
       ELSE IF do_io_locally \/ p = master_rank
       THEN IF opened
            THEN /\ rpc' = [rpc EXCEPT ![p] =
                              IF do_io_locally THEN "check" ELSE AfterGather(Senders)]
                 /\ todo' = [todo EXCEPT ![p] = IF do_io_locally THEN <<>> ELSE Senders]
                 /\ rwritten' = [rwritten EXCEPT ![p] =
                                    Append(@, [of |-> p, at |-> rclock[p], sent |-> rclock[p],
                                               sno |-> writeSnowCoverDue(p)])]
                 /\ rsnow_poi_written' = [rsnow_poi_written EXCEPT ![p] =
                        IF do_io_locally THEN @ \/ writeSnowCoverDue(p)
                        ELSE @ \/ Senders = <<>>]
                 /\ UNCHANGED <<channel, rerr>>
            ELSE /\ rpc' = [rpc EXCEPT ![p] = "main"]
                 /\ rerr' = [rerr EXCEPT ![p] = 0]
                 /\ UNCHANGED <<todo, channel, rwritten, rsnow_poi_written>>
       ELSE /\ channel' = [channel EXCEPT ![p] = @ \o Collections(rclock[p])]
            /\ rpc' = [rpc EXCEPT ![p] = "check"]
            /\ UNCHANGED <<todo, rerr, rwritten, rsnow_poi_written>>
    /\ UNCHANGED <<groupConfig, inReduce, reductions, rclock, rattached, outsideGroup>>

\* the master receives the three collections of the next sender and writes them;
\* after the last sender the .sno of the special points counts as written
receiveAt(p, opened) ==
    /\ rpc[p] = "gather" /\ todo[p] # <<>>
    /\ Len(channel[Head(todo[p])]) >= Len(PointCollections)
    /\ channel' = [channel EXCEPT ![Head(todo[p])] =
                      SubSeq(@, Len(PointCollections) + 1, Len(@))]
    /\ IF opened
       THEN /\ todo' = [todo EXCEPT ![p] = Tail(@)]
            /\ rpc' = [rpc EXCEPT ![p] = AfterGather(Tail(todo[p]))]
            /\ rwritten' = [rwritten EXCEPT ![p] =
                               Append(@, [of |-> Head(todo[p]), at |-> rclock[p],
                                          sent |-> channel[Head(todo[p])][1].at,
                                          sno |-> writeSnowCoverDue(p)])]
            /\ rsnow_poi_written' = [rsnow_poi_written EXCEPT ![p] =
                                        @ \/ Tail(todo[p]) = <<>>]
            /\ UNCHANGED rerr
       ELSE /\ todo' = [todo EXCEPT ![p] = <<>>]
            /\ rpc' = [rpc EXCEPT ![p] = "main"]
            /\ rerr' = [rerr EXCEPT ![p] = 0]
            /\ UNCHANGED <<rwritten, rsnow_poi_written>>
    /\ UNCHANGED <<groupConfig, inReduce, reductions, rclock, rattached, outsideGroup>>

\* the test after the special points: a process whose worker loop counted a
\* failure aborts, any other goes on to the grids of the snow drift
abortCheckAt(p) ==
    /\ rpc[p] = "check"
    /\ IF rerr[p] > 0
       THEN /\ rpc' = [rpc EXCEPT ![p] = "aborted"]
            /\ UNCHANGED todo
       ELSE /\ rpc' = [rpc EXCEPT ![p] = "drift"]
            /\ todo' = [todo EXCEPT ![p] = IF rattached[p].drift THEN DriftGrids ELSE <<>>]
    /\ UNCHANGED <<groupConfig, inReduce, reductions, rerr, rclock, rattached, channel, rwritten, rsnow_poi_written,
                   outsideGroup>>

\* the five grids go to the snow drift; the albedo is next
pushSnowSurfaceDataAt(p) ==
    /\ rpc[p] = "drift" /\ todo[p] = <<>>
    /\ rpc' = [rpc EXCEPT ![p] = "eb"]
    /\ todo' = [todo EXCEPT ![p] = IF rattached[p].eb THEN AlbedoGrids ELSE <<>>]
    /\ UNCHANGED <<groupConfig, inReduce, reductions, rerr, rclock, rattached, channel, rwritten, rsnow_poi_written,
                   outsideGroup>>

\* the albedo goes to the energy balance; writeOutput starts on its grid list
pushAlbedoAt(p) ==
    /\ rpc[p] = "eb" /\ todo[p] = <<>>
    /\ rpc' = [rpc EXCEPT ![p] = "output"]
    /\ todo' = [todo EXCEPT ![p] = output_grids]
    /\ UNCHANGED <<groupConfig, inReduce, reductions, rerr, rclock, rattached, channel, rwritten, rsnow_poi_written,
                   outsideGroup>>

\* writeOutput has gone through its grids and returns
writeOutputAt(p) ==
    /\ rpc[p] = "output" /\ todo[p] = <<>>
    /\ rpc' = [rpc EXCEPT ![p] = "advance"]
    /\ UNCHANGED <<groupConfig, todo, inReduce, reductions, rerr, rclock, rattached,
                   channel, rwritten, rsnow_poi_written,
                   outsideGroup>>

\* the clock of the process advances and calcNextStep returns
advanceClockAt(p) ==
    /\ rpc[p] = "advance"
    /\ rclock' = [rclock EXCEPT ![p] = @ + timeStep]
    /\ rpc' = [rpc EXCEPT ![p] = "main"]
    /\ UNCHANGED <<groupConfig, todo, inReduce, reductions, rerr, rattached, channel, rwritten, rsnow_poi_written,
                   outsideGroup>>

\* what a process does by itself once it is inside a call
RunsOn(p) ==
    \/ attachReturnsAt(p)
    \/ getGridAt(p)
    \/ allreduce_sum(p)
    \/ \E raised \in 0 .. 1 : runModelAt(p, raised)
    \/ \E opened \in BOOLEAN : write_special_pointsAt(p, opened)
    \/ \E opened \in BOOLEAN : receiveAt(p, opened)
    \/ abortCheckAt(p)
    \/ pushSnowSurfaceDataAt(p)
    \/ pushAlbedoAt(p)
    \/ writeOutputAt(p)
    \/ advanceClockAt(p)

NextMPI ==
    \E p \in Ranks :
        \/ setSnowDriftAt(p)
        \/ setEnergyBalanceAt(p)
        \/ calcNextStepAt(p)
        \/ RunsOn(p)

\* a run of the group, for every configuration: master rank, local or gathered
\* special-point output, output grids, attached consumers, special points
InitMPI ==
    /\ InitCoordinator
    /\ \E mr \in Ranks, io \in BOOLEAN, og \in OutputGridConfigs,
          pl \in [drift : BOOLEAN, eb : BOOLEAN] : InitGroup(mr, io, og, pl)
    /\ InitLayout(1, NbProcs, 1)
    /\ glacier_katabatic_flow = FALSE
    \* SNOW_WRITE is read only on the way of the special points
    /\ snow_write \in (IF pts = <<>> THEN {FALSE} ELSE BOOLEAN)

SpecMPI == InitMPI /\ [][NextMPI]_vars

\* every process keeps running the call it is in; when the program calls the
\* coordinator again is left open
SpecMPIFair == SpecMPI /\ \A p \in Ranks : WF_vars(RunsOn(p))

(***************************************************************************)
(* The decomposition.  The dem has dimx columns; every process of the run   *)
(* takes a slice of them and splits its slice among its workers.  getGrid   *)
(* puts the grid of every worker into a grid of the whole dem and the       *)
(* reduction adds up the grids of all processes.                            *)
(***************************************************************************)

Min(a, b) == IF a <= b THEN a ELSE b
\* the parts of the utility, but an empty part reported at offset 0
getArraySliceParams_EmptyAtZero(total_size, part_count, idx) ==
    LET q == total_size \div part_count
        r == total_size % part_count
        l == q + (IF idx < r THEN 1 ELSE 0)
    IN  Part(IF l = 0 THEN 0 ELSE idx * q + Min(idx, r), l)
\* near-equal parts with the remainder going to the latest parts
getArraySliceParams_RemainderLast(total_size, part_count, idx) ==
    LET q == total_size \div part_count
        r == total_size % part_count
        late == IF idx < part_count - r THEN 0 ELSE idx - (part_count - r)
    IN  Part(idx * q + late, q + (IF idx < part_count - r THEN 0 ELSE 1))
\* the partition utility: part idx of part_count near-equal parts of total_size,
\* the remainder going to the earliest parts
getArraySliceParams(total_size, part_count, idx) ==
    LET q == total_size \div part_count
        r == total_size % part_count
    IN  Part(idx * q + Min(idx, r), q + (IF idx < r THEN 1 ELSE 0))

\* the processes of the run and the worker indices of a process
Active == 0 .. (size - 1)
WorkerIds == 0 .. (nbworkers - 1)
Cols == 0 .. (dimx - 1)

\* the split of the whole dem, instead of the slice of the process, among the workers
WorkerSlice_WholeDem(nx, ii) == getArraySliceParams(dimx, nbworkers, ii)
\* thread_startx and thread_nx of worker ii in a process whose slice has nx columns
WorkerSlice(nx, ii) == getArraySliceParams(nx, nbworkers, ii)
\* every worker placed at the first column
WorkerOffset_Zero(startx, thread_startx) == 0
\* where the constructor places worker ii: the offset inside the slice of the process
WorkerOffset(startx, thread_startx) == thread_startx

\* lines 135-142: the special points of pts whose column lies in offset .. endx,
\* with the column counted from offset
filterPts(offset, thread_nx) ==
    LET endx == thread_nx + offset - 1
        mine == SelectSeq(pts, LAMBDA c : c[1] >= offset /\ c[1] <= endx)
    IN  [k \in 1 .. Len(mine) |-> <<mine[k][1] - offset, mine[k][2]>>]

\* the constructor on process p: the slice of the process, then one slice per
\* worker; a worker is created only for a non-empty slice
construct(p) ==
    /\ p \in Active /\ lpc[p] = "new"
    /\ LET mine == getArraySliceParams(dimx, size, p)
           sub(ii) == WorkerSlice(mine.length, ii)
       IN  /\ part' = [part EXCEPT ![p] = mine]
           /\ slices' = [slices EXCEPT ![p] = [ii \in WorkerIds |-> sub(ii)]]
           /\ workers' = [workers EXCEPT ![p] = [ii \in WorkerIds |-> sub(ii).length > 0]]
           /\ worker_startx' = [worker_startx EXCEPT ![p] = [ii \in WorkerIds |->
                  IF sub(ii).length > 0 THEN WorkerOffset(mine.offset, sub(ii).offset) ELSE 0]]
           /\ worker_deltax' = [worker_deltax EXCEPT ![p] = [ii \in WorkerIds |->
                  IF sub(ii).length > 0 THEN sub(ii).length ELSE 0]]
           /\ worker_pts' = [worker_pts EXCEPT ![p] = [ii \in WorkerIds |->
                  IF sub(ii).length > 0
                  THEN filterPts(WorkerOffset(mine.offset, sub(ii).offset), sub(ii).length)
                  ELSE <<>>]]
    /\ lpc' = [lpc EXCEPT ![p] = "constructed"]
    /\ UNCHANGED <<dimx, size, nbworkers, o_grid2D, summed, unavailable, returned,
                   outsideLayout>>

\* the columns into which getGrid puts the grid of worker ii of process p
SpliceRange(p, ii) ==
    {x \in Cols : worker_startx[p][ii] <= x /\ x < worker_startx[p][ii] + worker_deltax[p][ii]}

\* the grid worker ii of process p holds for a parameter it computes: one value
\* per column of its own slice, counted from the first column of the slice
WorkerGrid(p, ii) == [c \in 0 .. (worker_deltax[p][ii] - 1) |-> <<p, ii, c>>]

\* what fill puts into column x of the whole dem: the column x - startx of the
\* grid of every worker whose range holds x
Filled(p, delivering, x) ==
    {WorkerGrid(p, ii)[x - worker_startx[p][ii]] :
        ii \in {jj \in delivering : x \in SpliceRange(p, jj)}}

\* getGrid on process p up to the reduction: a grid of the whole dem, empty
\* everywhere, then the grid of every worker at its columns; the workers in
\* missing answer with an empty grid and are counted.  A worker slot
\* left empty by the constructor is dereferenced all the same: the process
\* crashes, or the call yields nothing and the slot is passed over
getGridFill(p, crashes, missing) ==
    /\ p \in Active /\ lpc[p] = "constructed"
    /\ missing \subseteq {ii \in WorkerIds : workers[p][ii]}
    /\ IF crashes /\ \E ii \in WorkerIds : ~workers[p][ii]
       THEN /\ lpc' = [lpc EXCEPT ![p] = "crashed"]
            /\ UNCHANGED <<o_grid2D, unavailable>>
       ELSE /\ lpc' = [lpc EXCEPT ![p] = "filled"]
            /\ unavailable' = [unavailable EXCEPT ![p] = missing]
            /\ o_grid2D' = [o_grid2D EXCEPT ![p] = [x \in Cols |->
                   Filled(p, {jj \in WorkerIds : workers[p][jj] /\ jj \notin missing}, x)]]
    /\ UNCHANGED <<dimx, size, nbworkers, built, summed, returned, outsideLayout>>

\* the sum over the processes, once every process of the run has entered it:
\* every cell gets what every process put there
allreduce_sumGrid ==
    /\ \A p \in Active : lpc[p] = "filled"
    /\ summed' = [x \in Cols |-> UNION {o_grid2D[p][x] : p \in Active}]
    /\ lpc' = [p \in Ranks |-> IF p \in Active THEN "reduced" ELSE lpc[p]]
    /\ UNCHANGED <<dimx, size, nbworkers, built, o_grid2D, unavailable, returned, outsideLayout>>

\* getGrid on process p after the reduction: the sum is returned, or the grid
\* is emptied first if one of the workers of this process was counted
getGridReturn(p) ==
    /\ p \in Active /\ lpc[p] = "reduced"
    /\ returned' = [returned EXCEPT ![p] =
           IF Cardinality(unavailable[p]) > 0 THEN EmptyGrid ELSE FullGrid(summed)]
    /\ lpc' = [lpc EXCEPT ![p] = "returned"]
    /\ UNCHANGED <<dimx, size, nbworkers, built, o_grid2D, summed, unavailable, outsideLayout>>

NextPartition ==
    \/ \E p \in Ranks : construct(p)
    \/ \E p \in Ranks, crashes \in BOOLEAN, missing \in SUBSET (0 .. (NbWorkers - 1)) :
          getGridFill(p, crashes, missing)
    \/ allreduce_sumGrid
    \/ \E p \in Ranks : getGridReturn(p)

\* the registered lists the decomposition is followed with
PartitionPts == {<<>>, << <<0, 0>> >>, << <<2, 0>>, <<0, 1>> >>}

\* every dem width, number of processes and number of workers per process
InitPartition ==
    /\ \E points \in PartitionPts : InitMembers(points)
    /\ vec_pts = pts /\ ppc = "registered" /\ logged = <<>>
    /\ NoPointOutput
    /\ NoInitialState
    /\ NoLifecycle
    /\ NoPlugin
    /\ InitGroup(0, TRUE, <<>>, [drift |-> FALSE, eb |-> FALSE])
    /\ \E dx \in 0 .. MaxDimX, sz \in 1 .. NbProcs, nw \in 1 .. NbWorkers :
          InitLayout(dx, sz, nw)
    /\ glacier_katabatic_flow = FALSE /\ snow_write = FALSE

SpecPartition == InitPartition /\ [][NextPartition]_vars

(***************************************************************************)
(* The registration of the special points.  The constructor receives the    *)
(* points of interest as cells <<ix, iy>> of the dem, in any order and      *)
(* with repetitions, and prepare_pts turns them into the list pts.          *)
(***************************************************************************)

\* the columns are those of the widest dem, the rows are 0 .. MaxDimY - 1
MaxDimY == 2
\* the longest list of points of interest
MaxPts == 3

Cells == (0 .. (MaxDimX - 1)) \X (0 .. (MaxDimY - 1))
PoiLists == UNION {[1 .. n -> Cells] : n \in 0 .. MaxPts}

\* by increasing column first, the row as second key
pair_comparator_ColumnFirst(l, r) ==
    IF l[1] = r[1] THEN l[2] < r[2] ELSE l[1] < r[1]
\* by increasing y and increasing x as a second key
pair_comparator(l, r) ==
    IF l[2] = r[2] THEN l[1] < r[1] ELSE l[2] < r[2]

\* a search that never finds the cell
find_Nothing(list, tmp) == {}
\* std::find: the positions of list that hold the cell
find(list, tmp) == {k \in 1 .. Len(list) : list[k] = tmp}

\* the loop of prepare_pts from input index ii on (counted from 1 here): a cell
\* already in the list is reported with the index of the point it repeats (both
\* counted from 0, as printed), any other is appended
RECURSIVE registerFrom(_, _, _)
registerFrom(vec, ii, st) ==
    IF ii > Len(vec) THEN st
    ELSE LET tmp == vec[ii]
             it == find(st.pts, tmp)
         IN  IF it # {}
             THEN LET orig_idx == st.vec_idx[CHOOSE k \in it : \A j \in it : k <= j]
                  IN  registerFrom(vec, ii + 1,
                                   [st EXCEPT !.log = Append(@, <<ii - 1, orig_idx>>)])
             ELSE registerFrom(vec, ii + 1,
                               [st EXCEPT !.pts = Append(@, tmp),
                                          !.vec_idx = Append(@, ii - 1)])

\* std::sort with the comparator: every element goes behind the elements that
\* come before it
RECURSIVE sort(_)
sort(list) ==
    IF list = <<>> THEN <<>>
    ELSE LET rest == sort(Tail(list))
             x == Head(list)
             k == Cardinality({j \in 1 .. Len(rest) : pair_comparator(rest[j], x)})
         IN  SubSeq(rest, 1, k) \o <<x>> \o SubSeq(rest, k + 1, Len(rest))

\* prepare_pts as a function of its input: the list and the reported duplicates
Registered(vec) ==
    LET st == registerFrom(vec, 1, [pts |-> <<>>, vec_idx |-> <<>>, log |-> <<>>])
    IN  [pts |-> sort(st.pts), log |-> st.log]

prepare_pts ==
    /\ ppc = "new"
    /\ pts' = Registered(vec_pts).pts
    /\ logged' = Registered(vec_pts).log
    /\ ppc' = "registered"
    /\ UNCHANGED <<vec_pts, attached, flags, nextStepTimestamp, grids, pc, stepLocals,
                   pushedAt, lastCall, group, layout, settings, pointOutput, initialState, lifecycle, plugin>>

NextPoints == prepare_pts

\* the constructor before line 98, for every list of points of interest
InitPoints ==
    /\ InitMembers(<<>>)
    /\ InitGroup(0, TRUE, <<>>, [drift |-> FALSE, eb |-> FALSE])
    /\ InitLayout(1, 1, 1)
    /\ glacier_katabatic_flow = FALSE /\ snow_write = FALSE
    /\ vec_pts \in PoiLists /\ ppc = "new" /\ logged = <<>>
    /\ NoPointOutput
    /\ NoInitialState
    /\ NoLifecycle
    /\ NoPlugin

SpecPoints == InitPoints /\ [][NextPoints]_vars

(***************************************************************************)
(* The output of the special points, on one process that writes its own     *)
(* files.  The constructor writes the header of the .smet stream of every   *)
(* special point; every step lets the workers buffer one snapshot per       *)
(* point, and write_special_points collects the snapshots and appends one   *)
(* line per snapshot to the stream of its station.                          *)
(***************************************************************************)

\* how often write_special_points may throw in a run
MaxThrows == 1

\* the most special points of a run whose output is followed
MaxOutPts == 2

\* the lists prepare_pts can leave behind
RegisteredLists ==
    {Registered(vec).pts : vec \in UNION {[1 .. n -> Cells] : n \in 0 .. MaxOutPts}}

\* lines 126-142: the special points handed to worker ii, in the coordinates of
\* its slice (none if the slice is empty and no worker is created)
sub_pts(ii) ==
    LET sl == WorkerSlice(dimx, ii)
    IN  IF sl.length > 0
        THEN filterPts(WorkerOffset(0, sl.offset), sl.length)
        ELSE <<>>

\* what a worker buffers for one of its points in a step: the station of the
\* cell (named after the cell of the dem) and the date of the step
Snapshot(ii, c, date) ==
    [station |-> <<c[1] + WorkerOffset(0, WorkerSlice(dimx, ii).offset), c[2]>>,
     date |-> date]

\* a worker running one step: one more snapshot for each of its points, in the
\* order of its points
gatherSpecialPoints(ii, buffer, date) ==
    buffer \o [k \in 1 .. Len(sub_pts(ii)) |-> Snapshot(ii, sub_pts(ii)[k], date)]

Header == [station |-> "header", date |-> startTime - timeStep]

\* lines 994-996 with 818-856: the stream of every special point is created
\* and receives its header; a stream that cannot be opened ends the constructor
readInitalSnowCover(opens) ==
    /\ opc = "new"
    /\ IF opens
       THEN /\ smet' = [c \in Cells |-> IF c \in {pts[k] : k \in 1 .. Len(pts)}
                                        THEN <<Header>> ELSE smet[c]]
            /\ opc' = "idle"
       ELSE /\ opc' = "no coordinator"
            /\ UNCHANGED smet
    /\ UNCHANGED <<buffers, snow_pixel, written, thrown, snow_poi_written,
                   coordinator, group, layout, settings, registration, initialState, lifecycle, plugin>>

\* lines 682-708: a step starts and every worker runs it
runModelAll ==
    /\ opc = "idle" /\ nextStepTimestamp < EndTime
    /\ buffers' = [ii \in WorkerIds |-> gatherSpecialPoints(ii, buffers[ii], nextStepTimestamp)]
    /\ opc' = "points"
    /\ UNCHANGED <<smet, snow_pixel, written, thrown, snow_poi_written,
                   coordinator, group, layout, settings, registration, initialState, lifecycle, plugin>>

\* the loop of lines 750-751 from the last worker to the first
getOutputSpecialPoints_Descending(upTo) ==
    LET RECURSIVE from(_)
        from(ii) == IF ii < 0 THEN <<>> ELSE buffers[ii] \o from(ii - 1)
    IN  from(upTo)
\* lines 750-751: the snapshots of the workers 0 .. upTo, one worker after the other
getOutputSpecialPoints(upTo) ==
    LET RECURSIVE from(_)
        from(ii) == IF ii > upTo THEN <<>> ELSE buffers[ii] \o from(ii + 1)
    IN  from(0)

\* lines 864-900: one line appended to the stream of the station
write_SMET(streams, snap) ==
    [streams EXCEPT ![snap.station] = Append(@, snap)]

\* lines 806-810: the lines of the first n snapshots, in their order
RECURSIVE writeOutputSpecialPoints(_, _, _)
writeOutputSpecialPoints(streams, pixels, n) ==
    IF n = 0 THEN streams
    ELSE write_SMET(writeOutputSpecialPoints(streams, pixels, n - 1), pixels[n])

\* write_special_points, lines 741-790, for local output: the snapshots are
\* collected and written one by one; failAt = 0 means every stream could be
\* opened, otherwise write_SMET throws at snapshot failAt and the exception leaves
\* the step: the later lines, the clearing of lines 788-789 and the rest of the
\* step are skipped.  TS and PR tell whether time series and profiles are due
\* (lines 802-803, 808-809): they go to other files and change nothing here
write_special_pointsLocal(TS, PR, failAt) ==
    /\ opc = "points"
    /\ IF pts = <<>>
       THEN /\ opc' = "check"
            /\ UNCHANGED <<buffers, smet, snow_pixel, written, thrown,
                           snow_poi_written>>
       ELSE LET pixels == getOutputSpecialPoints(nbworkers - 1)
            IN  /\ failAt <= Len(pixels)
                /\ failAt > 0 => thrown < MaxThrows
                /\ snow_pixel' = pixels
                /\ IF failAt = 0
                   THEN /\ smet' = writeOutputSpecialPoints(smet, pixels, Len(pixels))
                        /\ written' = pixels
                        /\ snow_poi_written' = (snow_poi_written \/ ~snow_write)
                        /\ buffers' = [ii \in WorkerIds |-> <<>>]
                        /\ opc' = "check"
                        /\ UNCHANGED thrown
                   ELSE /\ smet' = writeOutputSpecialPoints(smet, pixels, failAt - 1)
                        /\ written' = SubSeq(pixels, 1, failAt - 1)
                        /\ thrown' = thrown + 1
                        /\ opc' = "idle"
                        /\ UNCHANGED <<buffers, snow_poi_written>>
    /\ UNCHANGED <<coordinator, group, layout, settings, registration, initialState, lifecycle, plugin>>

\* lines 713-738 of a step without failed workers: the clock advances
advanceClockOut ==
    /\ opc = "check"
    /\ nextStepTimestamp' = nextStepTimestamp + timeStep
    /\ opc' = "idle"
    /\ UNCHANGED <<attached, flags, grids, pts, pc, stepLocals, pushedAt, lastCall,
                   buffers, smet, snow_pixel, written, thrown, snow_poi_written,
                   group, layout, settings, registration, initialState, lifecycle, plugin>>

NextOutput ==
    \/ \E opens \in BOOLEAN : readInitalSnowCover(opens)
    \/ runModelAll
    \/ \E TS \in BOOLEAN, PR \in BOOLEAN, failAt \in 0 .. (MaxOutPts * (MaxThrows + 1)) :
          write_special_pointsLocal(TS, PR, failAt)
    \/ advanceClockOut

\* the constructor after prepare_pts, for every registered list, on the widest dem
InitOutput ==
    /\ \E points \in RegisteredLists : InitMembers(points)
    /\ vec_pts = pts /\ ppc = "registered" /\ logged = <<>>
    /\ InitGroup(0, TRUE, <<>>, [drift |-> FALSE, eb |-> FALSE])
    /\ InitLayout(MaxDimX, 1, NbWorkers)
    /\ glacier_katabatic_flow = FALSE /\ snow_write = FALSE
    /\ buffers = [ii \in 0 .. (NbWorkers - 1) |-> <<>>]
    /\ smet = [c \in Cells |-> <<>>]
    /\ snow_pixel = <<>> /\ written = <<>>
    /\ thrown = 0
    /\ snow_poi_written = FALSE /\ opc = "new"
    /\ NoInitialState
    /\ NoLifecycle
    /\ NoPlugin

SpecOutput == InitOutput /\ [][NextOutput]_vars

(***************************************************************************)
(* Vocabulary of the properties                                             *)
(***************************************************************************)
Setters == {"assimilate", "setSnowMassChange", "setMeteo", "setRadiationComponents"}
\* inside the step, process alive
StepPcs == {"fanout", "points", "check", "drift", "eb", "output", "advance"}
AllClear == ~dataMeteo2D /\ ~dataDa /\ ~dataSnowDrift /\ ~dataRadiation

(***************************************************************************)
(* C1: a step runs only on data of the current timestamp.  Whenever a step  *)
(* is executing (or has aborted the process), the meteo push and the push   *)
(* of every attached collaborator (drift, da, eb) were consumed by it, each *)
(* made with the timestamp the clock still shows; and a raised flag always  *)
(* stems from a push tagged with the current timestamp.  A producer that    *)
(* never pushed leaves its entry at NoPush, so no step runs.                *)
(***************************************************************************)
C1_StepOnlyOnCurrentData ==
    /\ pc \in StepPcs \cup {"aborted"} =>
          /\ stepInputs.meteo = nextStepTimestamp
          /\ drift => stepInputs.drift = nextStepTimestamp
          /\ da => stepInputs.da = nextStepTimestamp
          /\ eb => stepInputs.rad = nextStepTimestamp
    /\ dataMeteo2D => pushedAt.meteo = nextStepTimestamp
    /\ dataSnowDrift => pushedAt.drift = nextStepTimestamp
    /\ dataDa => pushedAt.da = nextStepTimestamp
    /\ dataRadiation => pushedAt.rad = nextStepTimestamp

\* a step of the second timestamp is running with all three collaborators attached
C1_Witness ==
    /\ pc = "fanout"
    /\ drift /\ da /\ eb
    /\ nextStepTimestamp = startTime + timeStep
\* a transition that is a call of one of the four producer setters
SetterCall == pc = "idle" /\ attached' = attached /\ lastCall'.op \in Setters
\* the step leaves the worker loop and the code after it: it returns, throws or aborts
StepEnds == pc \in StepPcs /\ pc' \notin StepPcs

\* setMeteo with the expected timestamp, energy balance attached, all flags clear
C2_MeteoFirst ==
    /\ SetterCall /\ eb /\ AllClear
    /\ lastCall'.op = "setMeteo" /\ lastCall'.ts = nextStepTimestamp
\* the following setRadiationComponents with the same timestamp
C2_RadiationSecond ==
    /\ SetterCall /\ eb
    /\ dataMeteo2D /\ ~dataDa /\ ~dataSnowDrift /\ ~dataRadiation
    /\ lastCall.op = "setMeteo" /\ lastCall.res = "returned"
    /\ lastCall.ts = nextStepTimestamp
    /\ lastCall'.op = "setRadiationComponents" /\ lastCall'.ts = nextStepTimestamp
\* the step that call started: it consumed a meteo and a radiation push only
C2_ScenarioStep ==
    /\ pc \in StepPcs /\ eb
    /\ lastCall.op = "setRadiationComponents"
    /\ stepInputs.da = NoPush /\ stepInputs.drift = NoPush
C2_NoStepOnMeteo ==
    C2_MeteoFirst =>
        /\ pc' = "idle" /\ lastCall'.res = "returned"
        /\ nextStepTimestamp' = nextStepTimestamp
        /\ dataMeteo2D'

AttemptCall == SetterCall /\ lastCall'.attempt
\* the four flags as calcNextStep finds them in such a call
RaisedMeteo == dataMeteo2D \/ lastCall'.op = "setMeteo"
RaisedDa == dataDa \/ lastCall'.op = "assimilate"
RaisedDrift == dataSnowDrift \/ lastCall'.op = "setSnowMassChange"
RaisedRadiation == dataRadiation \/ lastCall'.op = "setRadiationComponents"
\* meteo and every attached producer have pushed
AttachedReady ==
    /\ RaisedMeteo
    /\ drift => RaisedDrift
    /\ da => RaisedDa
    /\ eb => RaisedRadiation

(***************************************************************************)
(* C3 as stated: for every combination of attached modules, once the meteo  *)
(* flag and the flags of all attached producers are raised, the             *)
(* step-attempt routine executes the step.                                  *)
(***************************************************************************)
C3_Original ==
    [][ (AttemptCall /\ AttachedReady) => pc' = "fanout" ]_vars

(***************************************************************************)
(* C3 amended: the snow-drift and the data-assimilation flag are required   *)
(* only if the module is attached, but the radiation flag is required       *)
(* always.  Once the meteo flag and the flags of all attached producers are *)
(* raised, the routine executes the step (all flags cleared) if the         *)
(* radiation flag is raised too, whatever the drift and assimilation flags  *)
(* of non-attached modules are; if it is not raised, which then means that  *)
(* no energy balance is attached, the routine throws the missing-data error *)
(* and runs no step.                                                        *)
(***************************************************************************)
C3_OptionalProducers ==
    [][ (AttemptCall /\ AttachedReady) =>
            IF RaisedRadiation
            THEN /\ pc' = "fanout" /\ AllClear'
                 /\ \A w \in Workers : dispatched'[w] = 0
            ELSE /\ ~eb
                 /\ pc' = "idle" /\ lastCall'.res = "NoDataException" ]_vars

\* a step runs with data assimilation attached, and without a snow-drift push
\* since no snow drift is attached
C3_Witness ==
    /\ pc = "fanout"
    /\ da /\ ~drift /\ ~eb
    /\ stepInputs.drift = NoPush

(***************************************************************************)
(* C4: a call of any of the four setters with a timestamp other than the    *)
(* expected one fails with the timing-mismatch error                        *)
(* (InvalidArgumentException) and leaves the four readiness flags as they   *)
(* were.                                                                    *)
(***************************************************************************)
C4_MismatchRejected ==
    [][ (SetterCall /\ lastCall'.ts # nextStepTimestamp) =>
            /\ lastCall'.res = "InvalidArgumentException"
            /\ dataMeteo2D' = dataMeteo2D /\ dataDa' = dataDa
            /\ dataSnowDrift' = dataSnowDrift /\ dataRadiation' = dataRadiation ]_vars

\* assimilate was rejected while two flags were up, waiting for the snow drift
C4_Witness ==
    /\ lastCall.op = "assimilate" /\ lastCall.res = "InvalidArgumentException"
    /\ lastCall.ts # nextStepTimestamp
    /\ drift /\ dataMeteo2D /\ dataRadiation /\ ~dataSnowDrift /\ ~dataDa

(***************************************************************************)
(* C5: a setter call with a mismatching timestamp changes nothing else      *)
(* either: the nine forcing grids, the solar elevation and the clock keep   *)
(* their values, calcNextStep is not reached and no worker is dispatched.   *)
(***************************************************************************)
C5_RejectedCallChangesNothing ==
    [][ (SetterCall /\ lastCall'.ts # nextStepTimestamp) =>
            /\ UNCHANGED <<psum, psum_ph, vw, rh, ta, mns, shortwave, longwave, diffuse>>
            /\ solarElevation' = solarElevation
            /\ nextStepTimestamp' = nextStepTimestamp
            /\ ~lastCall'.attempt
            /\ pc' = "idle"
            /\ dispatched' = dispatched ]_vars

\* a snow-mass push tagged with the start time is rejected after the first step,
\* with grids of that step in store
C5_Witness ==
    /\ lastCall.op = "setSnowMassChange" /\ lastCall.res = "InvalidArgumentException"
    /\ lastCall.ts = startTime /\ nextStepTimestamp = startTime + timeStep
    /\ mns # Grid(nodata) /\ psum # Grid(nodata) /\ shortwave # Grid(nodata)

\* some readiness flag goes from true to false
FlagLowered ==
    \/ dataMeteo2D /\ ~dataMeteo2D'
    \/ dataDa /\ ~dataDa'
    \/ dataSnowDrift /\ ~dataSnowDrift'
    \/ dataRadiation /\ ~dataRadiation'

ClockMovesOnlyAfterCleanStep ==
    /\ nextStepTimestamp' >= nextStepTimestamp
    /\ nextStepTimestamp' # nextStepTimestamp =>
          /\ pc = "advance" /\ errCount = 0
          /\ \A w \in Workers : dispatched[w] = 1
          /\ nextStepTimestamp' = nextStepTimestamp + timeStep

C8_MissingRadiation ==
    [][ (AttemptCall /\ AttachedReady /\ ~RaisedRadiation) =>
            /\ lastCall'.res = "NoDataException"
            /\ pc' = "idle"
            /\ UNCHANGED <<dispatched, errCount, phases>>
            /\ dataMeteo2D' = RaisedMeteo /\ dataDa' = RaisedDa
            /\ dataSnowDrift' = RaisedDrift /\ dataRadiation' = RaisedRadiation
            /\ nextStepTimestamp' = nextStepTimestamp ]_vars

\* the snow drift is attached and has pushed, meteo has pushed, radiation has not
C8_Witness ==
    /\ pc = "idle" /\ lastCall.res = "NoDataException"
    /\ drift /\ dataSnowDrift /\ dataMeteo2D /\ ~dataRadiation

C10_EveryWorkerOnce ==
    /\ pc = "fanout" =>
          /\ \A w \in Workers : dispatched[w] <= 1
          /\ errCount = Cardinality(failed)
    /\ pc \in (StepPcs \ {"fanout"}) \cup {"aborted"} =>
          /\ \A w \in Workers : dispatched[w] = 1
          /\ failed \subseteq Workers
          /\ errCount = Cardinality(failed)

\* the loop is left with exactly one failed worker
C10_Witness ==
    /\ pc = "points"
    /\ Cardinality(failed) = 1
    /\ \A w \in Workers : dispatched[w] = 1

\* what a step in which a worker raised may have done: the worker loop and the
\* output of the special points
FailedStepPhases == {<<>>, <<"runModel">>, <<"runModel", "write_special_points">>}

(***************************************************************************)
(* C11: a step whose failure count is nonzero ends in the abnormal          *)
(* termination of the process and in no other way, and nothing of it        *)
(* propagates: no grid is pushed to the drift or energy-balance consumer,   *)
(* no output is written, the clock is not advanced; the terminated process  *)
(* takes no further step of any kind.                                       *)
(***************************************************************************)
C11_Original ==
    [][ /\ (errCount > 0 /\ StepEnds) => pc' = "aborted"
        /\ errCount > 0 =>
              /\ phases' \in FailedStepPhases
              /\ outputDate' = NoPush
              /\ nextStepTimestamp' = nextStepTimestamp
        /\ pc = "aborted" => UNCHANGED vars ]_vars

Opt(b, x) == IF b THEN <<x>> ELSE <<>>
\* what a step has done when it has left the special-point output, the push to the
\* drift consumer, the push to the energy balance and writeOutput
PhasesAfterPoints == <<"runModel">> \o Opt(pts # <<>>, "write_special_points")
PhasesAfterDrift == PhasesAfterPoints \o Opt(drift, "setSnowSurfaceData")
PhasesAfterEb == PhasesAfterDrift \o Opt(eb, "setAlbedo")
PhasesAfterOutput == PhasesAfterEb \o <<"writeOutput">> \o Opt(runoff, "runoff")

(***************************************************************************)
(* C12: a successful step performs its phases in this order, each once: the *)
(* worker loop, the special-point output (only with registered points), the *)
(* push of the snow-surface grids to the drift consumer (only if attached), *)
(* the push of the albedo to the energy balance (only if attached), the     *)
(* output (with the runoff output if a runoff module is attached) made for  *)
(* the timestamp of the step, and last the clock advance: when the step is  *)
(* about to advance the clock, the clock still shows the step's timestamp.  *)
(* A consumer that is not attached receives no push.                        *)
(***************************************************************************)
C12_PhaseOrder ==
    /\ pc = "check" => phases = PhasesAfterPoints
    /\ pc = "drift" => (phases = PhasesAfterPoints /\ errCount = 0)
    /\ pc = "eb" => phases = PhasesAfterDrift
    /\ pc = "output" => (phases = PhasesAfterEb /\ outputDate = NoPush)
    /\ pc = "advance" =>
          /\ phases = PhasesAfterOutput
          /\ outputDate = lastCall.ts
          /\ nextStepTimestamp = lastCall.ts
    /\ pc \in StepPcs => nextStepTimestamp = lastCall.ts

\* the second step, with points and all consumers attached, is about to advance the clock
C12_Witness ==
    /\ pc = "advance"
    /\ drift /\ eb /\ runoff /\ pts # <<>>
    /\ nextStepTimestamp = startTime + timeStep
    /\ Len(phases) = 6

\* a transition that is a setter call arriving while the step runs
Arrives == pc \in StepPcs /\ arrival = NoArrival /\ arrival' # NoArrival
\* every raised flag stems from a push tagged with the timestamp now expected
FlagsForExpectedTimestamp ==
    /\ dataMeteo2D => pushedAt.meteo = nextStepTimestamp
    /\ dataDa => pushedAt.da = nextStepTimestamp
    /\ dataSnowDrift => pushedAt.drift = nextStepTimestamp
    /\ dataRadiation => pushedAt.rad = nextStepTimestamp

(***************************************************************************)
(* C13: a push that arrives while a step is running applies to the next     *)
(* step.  It is not lost: a push tagged with the timestamp of the next step *)
(* is accepted.  It is not merged into the running step: the running step   *)
(* goes on with the pushes it consumed.  And when the running step has      *)
(* advanced the clock, every raised flag stands for data of the timestamp   *)
(* that is expected next.                                                   *)
(***************************************************************************)
C13_Original ==
    [][ /\ (Arrives /\ arrival'.ts = nextStepTimestamp + timeStep) =>
              arrival'.res = "returned"
        /\ Arrives => (pc' = pc /\ stepInputs' = stepInputs)
        /\ (pc = "advance" /\ pc' = "idle") => FlagsForExpectedTimestamp' ]_vars

(***************************************************************************)
(* C14: under every interleaving of setter calls with a running step, none  *)
(* of the nine full-domain forcing grids is written between the clearing of *)
(* the flags and the clock advance.                                         *)
(***************************************************************************)
C14_Original ==
    [][ (pc \in StepPcs) =>
            UNCHANGED <<psum, psum_ph, vw, rh, ta, mns, shortwave, longwave, diffuse>> ]_vars

\* s is an initial part of t
IsPrefix(s, t) == Len(s) <= Len(t) /\ SubSeq(t, 1, Len(s)) = s

(***************************************************************************)
(* C15 as stated: all processes issue the same sequence of cross-process    *)
(* sum-reductions, whoever is the master and whatever the workers of each   *)
(* process did.  At every moment the reductions entered by two processes    *)
(* agree position by position as far as both have got, and no process has   *)
(* entered a reduction that a terminated process never reached.             *)
(***************************************************************************)
C15_Original ==
    \A p, q \in Ranks :
        /\ IsPrefix(reductions[p], reductions[q]) \/ IsPrefix(reductions[q], reductions[p])
        /\ rpc[q] = "aborted" => Len(reductions[p]) <= Len(reductions[q])

\* positions of a process inside a step
RankStepPcs == {"fanout", "points", "gather", "check", "drift", "eb", "output", "advance"}
\* every process has started the step of timestamp t
AllStarted(t) == \A q \in Ranks : rclock[q] = t /\ rpc[q] \in RankStepPcs
\* process p is out of the step of timestamp t: its clock advanced, it was
\* terminated, or an exception took it back to its caller
StepOver(p, t) == rclock[p] > t \/ rpc[p] = "aborted" \/ rpc[p] = "main"

(***************************************************************************)
(* C16 as stated: once every process has started the step of a timestamp,   *)
(* each process eventually finishes it or terminates; none stays blocked    *)
(* forever in a reduction or in the exchange of the special points.  (A     *)
(* step left by an exception of the special-point output is counted as      *)
(* over, so that only blocking can falsify the statement.)                  *)
(***************************************************************************)
C16_Original ==
    \A t \in Timestamps, p \in Ranks : AllStarted(t) ~> StepOver(p, t)

\* the parts f[0] .. f[n-1] returned for a total
Contiguous(f, n) ==
    /\ f[0].offset = 0
    /\ \A i \in 0 .. (n - 2) : f[i + 1].offset = f[i].offset + f[i].length
CoversExactly(f, n, total) ==
    /\ \A i \in 0 .. (n - 1) : f[i].length >= 0 /\ f[i].offset + f[i].length <= total
    /\ \A x \in 0 .. (total - 1) :
          Cardinality({i \in 0 .. (n - 1) : f[i].offset <= x /\ x < f[i].offset + f[i].length}) = 1
NearEqual(f, n) == \A i, j \in 0 .. (n - 1) : f[i].length - f[j].length <= 1
\* every process of the run is constructed
AllConstructed == \A p \in Active : lpc[p] # "new"
\* the parts the constructors got for the processes
ProcessParts == [p \in Active |-> part[p]]

(***************************************************************************)
(* C17: the ranges the partition utility returns for the part indices       *)
(* 0..parts-1, in the split of the dem among the processes and in the split *)
(* of a process's slice among its workers, are contiguous (the first starts *)
(* at 0, each next one where the previous ends), pairwise non-overlapping,  *)
(* cover [0,total) exactly, and any two lengths differ by at most 1.        *)
(***************************************************************************)
C17_Partition ==
    /\ AllConstructed =>
          /\ Contiguous(ProcessParts, size)
          /\ CoversExactly(ProcessParts, size, dimx)
          /\ NearEqual(ProcessParts, size)
    /\ \A p \in Active : lpc[p] # "new" =>
          /\ Contiguous(slices[p], nbworkers)
          /\ CoversExactly(slices[p], nbworkers, part[p].length)
          /\ NearEqual(slices[p], nbworkers)

\* five columns on two processes with two workers each: slices of 3 and 2
\* columns, split 2+1 and 1+1
C17_Witness ==
    /\ AllConstructed /\ size = 2 /\ nbworkers = 2 /\ dimx = 5
    /\ part[1] = Part(3, 2)
    /\ slices[0][1] = Part(2, 1)
    /\ slices[1][1] = Part(1, 1)

RECURSIVE SumLengths(_, _)
SumLengths(f, n) == IF n = 0 THEN 0 ELSE f[n - 1].length + SumLengths(f, n - 1)
\* the first total_size mod part_count parts are one longer than the others
RemainderFirst(f, n, total) ==
    LET q == total \div n
        r == total % n
    IN  /\ \A i \in 0 .. (n - 1) : f[i].length = IF i < r THEN q + 1 ELSE q
        /\ n > total => \A i \in total .. (n - 1) : f[i].length = 0
        /\ SumLengths(f, n) = total

(***************************************************************************)
(* C18: the partition utility gives the remainder to the earliest parts.    *)
(* With q = total_size div part_count and r = total_size mod part_count,    *)
(* parts 0..r-1 have length q+1 and the others length q; when part_count >  *)
(* total_size the excess parts have length zero, and the lengths sum to     *)
(* total_size.  Stated for the split among the processes and for the split  *)
(* among the workers of every process.                                      *)
(***************************************************************************)
C18_RemainderFirst ==
    /\ AllConstructed => RemainderFirst(ProcessParts, size, dimx)
    /\ \A p \in Active : lpc[p] # "new" =>
          RemainderFirst(slices[p], nbworkers, part[p].length)

\* three columns on two processes: the first process gets two; the second has
\* one column for two workers and its second worker gets none
C18_Witness ==
    /\ AllConstructed /\ size = 2 /\ nbworkers = 2 /\ dimx = 3
    /\ part[0].length = 2 /\ part[1].length = 1
    /\ slices[1][0].length = 1 /\ slices[1][1].length = 0
    /\ ~workers[1][1]

StrictlyIncreasing(f, n) ==
    \A i, j \in 0 .. (n - 1) : i < j => f[i].offset < f[j].offset
\* the offsets never decrease, and grow exactly across non-empty parts
IncreasingAcrossNonEmpty(f, n) ==
    \A i, j \in 0 .. (n - 1) : i < j =>
        /\ f[i].offset <= f[j].offset
        /\ f[i].offset < f[j].offset <=> \E k \in i .. (j - 1) : f[k].length > 0

WorkerPairs == {pw \in Active \X WorkerIds : workers[pw[1]][pw[2]]}
\* every process has been through the reduction
AllReduced == \A p \in Active : lpc[p] = "reduced"

(***************************************************************************)
(* C20 as stated: for every number of processes and of workers, the column  *)
(* ranges into which the workers of all processes splice their grids in     *)
(* getGrid are pairwise disjoint over all (process, worker) pairs and       *)
(* together cover [0, dimx); after the sum over the processes every cell    *)
(* holds the value of exactly one worker.                                   *)
(***************************************************************************)
C20_Original ==
    /\ AllConstructed =>
          /\ \A a, b \in WorkerPairs :
                a # b => SpliceRange(a[1], a[2]) \cap SpliceRange(b[1], b[2]) = {}
          /\ UNION {SpliceRange(a[1], a[2]) : a \in WorkerPairs} = Cols
    /\ AllReduced => \A x \in Cols : Cardinality(summed[x]) = 1

(***************************************************************************)
(* C21: aggregation in a single process.  With one process whose workers    *)
(* all own columns and all hold the requested parameter, getGrid returns a  *)
(* grid of the whole dem in which every column x carries exactly the value  *)
(* the owning worker holds at column x - (start of its slice): the grids of *)
(* the workers side by side, in the order of their offsets.                 *)
(***************************************************************************)
C21_Aggregation ==
    (/\ size = 1 /\ lpc[0] = "returned"
     /\ \A ii \in WorkerIds : workers[0][ii]
     /\ unavailable[0] = {}) =>
        /\ ~returned[0].empty
        /\ DOMAIN returned[0].cells = Cols
        /\ \A x \in Cols : \E ii \in WorkerIds :
              /\ slices[0][ii].offset <= x
              /\ x < slices[0][ii].offset + slices[0][ii].length
              /\ returned[0].cells[x] = {<<0, ii, x - slices[0][ii].offset>>}

\* two workers of one process, the second one starting after the first column,
\* and the last column of the returned grid is the last column of the last worker
C21_Witness ==
    /\ size = 1 /\ nbworkers >= 2 /\ dimx > nbworkers
    /\ lpc[0] = "returned" /\ unavailable[0] = {}
    /\ \A ii \in WorkerIds : workers[0][ii]
    /\ returned[0].cells[dimx - 1] = {<<0, nbworkers - 1, slices[0][nbworkers - 1].length - 1>>}

(***************************************************************************)
(* C22: getGrid never returns partial data.  Once a process has returned    *)
(* from getGrid, in a run where every worker slot holds a worker: if some   *)
(* worker of the run answered with an empty grid, the returned grid is      *)
(* empty; the returned grid is a grid of the whole dem only if every worker *)
(* of the run delivered.                                                    *)
(***************************************************************************)
C22_Original ==
    \A p \in Active :
        (/\ lpc[p] = "returned"
         /\ \A q \in Active, ii \in WorkerIds : workers[q][ii]) =>
            ((\E q \in Active : unavailable[q] # {}) <=> returned[p].empty)

(***************************************************************************)
(* C23: round trip of the forcing grids.  A call of setMeteo with the       *)
(* timestamp of the clock, made with the grids psum, psum_ph, vw, rh, ta,   *)
(* leaves the coordinator so that getGrid returns them for PSUM, PSUM_PH,   *)
(* VW and RH under every configuration, and for TA when                     *)
(* GLACIER_KATABATIC_FLOW is off; setRadiationComponents does the same for  *)
(* ISWR and ILWR; and the step such a call may start replaces none of the   *)
(* stored grids before the call returns.                                    *)
(***************************************************************************)
MeteoArgs(v) == <<Grid(v), Grid(v + 1), Grid(v + 2), Grid(v + 3), Grid(v + 4)>>
ForeignMeteoArgs(v) == <<ForeignGrid(v), ForeignGrid(v + 1), ForeignGrid(v + 2),
                         ForeignGrid(v + 3), ForeignGrid(v + 4)>>
\* the call setMeteo(g..., t) with the timestamp of the clock
MeteoStored(g, t) == nextStepTimestamp = t /\ setMeteo(g[1], g[2], g[3], g[4], g[5], t)
RadiationStored(v, t) ==
    nextStepTimestamp = t /\ setRadiationComponents(v, v + 1, v + 2, v + 3, t)
\* getGrid right after the call returns what the call was given
MeteoReturned(g, withTa) ==
    /\ getGridDirect("PSUM")' = g[1]
    /\ getGridDirect("PSUM_PH")' = g[2]
    /\ getGridDirect("VW")' = g[3]
    /\ getGridDirect("RH")' = g[4]
    /\ withTa => getGridDirect("TA")' = g[5]

Refused ==
    /\ lastCall'.res \in {"InvalidArgumentException", "IndexOutOfBoundsException"}
    /\ UNCHANGED <<grids, flags, pc, nextStepTimestamp>>

C28_Original ==
    [][\A t \in Timestamps, v \in GridVals :
          /\ setSnowMassChange(ForeignGrid(v), t) => Refused
          /\ setMeteo(ForeignGrid(v), ForeignGrid(v + 1), ForeignGrid(v + 2),
                      ForeignGrid(v + 3), ForeignGrid(v + 4), t) => Refused]_vars

(***************************************************************************)
(* C30: which parameters getGrid answers directly.  A getGrid for TA, RH,   *)
(* VW, PSUM, PSUM_PH, ISWR or ILWR (seven parameters) returns at once: the  *)
(* process enters no reduction and nothing of the coordinator changes; a    *)
(* getGrid for any other parameter enters exactly one reduction, for that   *)
(* parameter, and returns only when the reduction does.                     *)
(***************************************************************************)
DirectParams == {"TA", "RH", "VW", "PSUM", "PSUM_PH", "ISWR", "ILWR"}

C30_DirectOrReduced ==
    [][\A p \in Ranks :
          getGridAt(p) =>
              IF Head(todo[p]) \in DirectParams
              THEN /\ UNCHANGED <<reductions, inReduce, coordinator>>
                   /\ todo'[p] = Tail(todo[p])
              ELSE /\ reductions'[p] = Append(reductions[p], Head(todo[p]))
                   /\ inReduce'[p] /\ todo'[p] = todo[p]
                   /\ UNCHANGED coordinator]_vars

\* the eight output grids of the first step are through on a process: seven
\* were answered directly, one by a reduction
C30_Witness ==
    \E p \in Ranks :
        /\ Len(output_grids) = 8 /\ ~plan.drift /\ ~plan.eb
        /\ rpc[p] = "output" /\ todo[p] = <<>> /\ rclock[p] = startTime
        /\ reductions[p] = <<"HS">>

\* at most six parameters are answered without a reduction: of the output grids
\* of the first step, in a run without drift and energy balance, all but six
\* at most went through a reduction
C30_Original ==
    \A p \in Ranks :
        (/\ ~plan.drift /\ ~plan.eb
         /\ rpc[p] = "output" /\ todo[p] = <<>> /\ rclock[p] = startTime) =>
            Len(output_grids) - Len(reductions[p]) <= 6

(***************************************************************************)
(* C24: the order of the registered points.  After prepare_pts, for every   *)
(* list of points of interest, every entry of pts is followed by an entry   *)
(* of a later row, or of the same row and a later column; the input (3,1),  *)
(* (1,1), (1,0) is registered as (1,0), (1,1), (3,1).                       *)
(***************************************************************************)
RowMajorBefore(a, b) == a[2] < b[2] \/ (a[2] = b[2] /\ a[1] < b[1])

C24_SortedByRowThenColumn ==
    ppc = "registered" =>
        /\ \A k \in 1 .. (Len(pts) - 1) : RowMajorBefore(pts[k], pts[k + 1])
        /\ vec_pts = << <<3, 1>>, <<1, 1>>, <<1, 0>> >> =>
              pts = << <<1, 0>>, <<1, 1>>, <<3, 1>> >>

\* the example of the statement, registered
C24_Witness ==
    /\ ppc = "registered"
    /\ vec_pts = << <<3, 1>>, <<1, 1>>, <<1, 0>> >>
    /\ pts = << <<1, 0>>, <<1, 1>>, <<3, 1>> >>

(***************************************************************************)
(* C25: registration removes duplicates.  After prepare_pts the cells of    *)
(* pts are the cells of the input and none occurs twice; every repeated     *)
(* input point is reported, together with the point it repeats, and        *)
(* nothing else happens to it; and the same input with any of its points    *)
(* appended once more, or given twice over, registers the same list.        *)
(***************************************************************************)
CellsOf(list) == {list[k] : k \in 1 .. Len(list)}

C25_Deduplicated ==
    ppc = "registered" =>
        /\ CellsOf(pts) = CellsOf(vec_pts)
        /\ Len(pts) = Cardinality(CellsOf(vec_pts))
        /\ Len(logged) = Len(vec_pts) - Len(pts)
        /\ \A k \in 1 .. Len(logged) :
              /\ logged[k][2] < logged[k][1]
              /\ vec_pts[logged[k][1] + 1] = vec_pts[logged[k][2] + 1]
        /\ Registered(vec_pts).pts = pts
        /\ Registered(vec_pts \o vec_pts).pts = pts
        /\ \A c \in CellsOf(vec_pts) : Registered(Append(vec_pts, c)).pts = pts

\* a list with a repeated point is registered: one entry, one report
C25_Witness ==
    /\ ppc = "registered"
    /\ vec_pts = << <<1, 1>>, <<0, 0>>, <<1, 1>> >>
    /\ pts = << <<0, 0>>, <<1, 1>> >>
    /\ logged = << <<2, 0>> >>

(***************************************************************************)
(* C26: the buffers are empty after the output of the special points.       *)
(* Whenever write_special_points is not under way (before a step, and after *)
(* the call has ended, however it ended and whatever fired), the buffer of  *)
(* every worker is empty; and every line written by a call that has         *)
(* returned carries the date of the step of that call.                      *)
(***************************************************************************)
C26_Original ==
    /\ opc \in {"idle", "check"} => \A ii \in WorkerIds : buffers[ii] = <<>>
    /\ opc = "check" =>
          \A k \in 1 .. Len(written) : written[k].date = nextStepTimestamp

(***************************************************************************)
(* C27: the order of the collected snapshots.  Every call of                *)
(* write_special_points collects the buffers of the workers one after the   *)
(* other by ascending worker index, each in the order the worker holds it:  *)
(* snapshot j of worker ii comes at position j behind all snapshots of the  *)
(* workers before ii.  The lines are written in that order, each to the     *)
(* stream of the station of its snapshot, up to the line that fails.        *)
(***************************************************************************)
RECURSIVE Before(_)
Before(ii) == IF ii = 0 THEN 0 ELSE Before(ii - 1) + Len(buffers[ii - 1])
LinesOf(lines, c) == SelectSeq(lines, LAMBDA s : s.station = c)

C27_AscendingWorkerOrder ==
    [][(opc = "points" /\ opc' # "points" /\ pts # <<>>) =>
          /\ Len(snow_pixel') = Before(nbworkers)
          /\ \A ii \in WorkerIds : \A j \in 1 .. Len(buffers[ii]) :
                snow_pixel'[Before(ii) + j] = buffers[ii][j]
          /\ Len(written') <= Len(snow_pixel')
          /\ written' = SubSeq(snow_pixel', 1, Len(written'))
          /\ opc' = "check" => written' = snow_pixel'
          /\ \A c \in Cells : smet'[c] = smet[c] \o LinesOf(written', c)]_vars

\* a point of the second worker comes first in pts (row 0) and a point of the
\* first worker second (row 1): collected and written the other way round
C27_Witness ==
    /\ opc = "check"
    /\ pts = << <<MaxDimX - 1, 0>>, <<0, 1>> >>
    /\ Len(written) = 2
    /\ written[1].station = <<0, 1>> /\ written[2].station = <<MaxDimX - 1, 0>>

(***************************************************************************)
(* C29: the stream of a special point.  Outside write_special_points, the   *)
(* stream of every registered point starts with the one header the          *)
(* constructor wrote, holds no other header, then one line for every step   *)
(* the workers have run, with strictly increasing dates.                    *)
(***************************************************************************)
StepsRun ==
    (nextStepTimestamp - startTime) \div timeStep + thrown
        + (IF opc = "check" THEN 1 ELSE 0)

C29_Original ==
    opc \in {"idle", "check"} =>
        \A k \in 1 .. Len(pts) :
            LET stream == smet[pts[k]]
            IN  /\ stream # <<>> /\ stream[1] = Header
                /\ \A n \in 2 .. Len(stream) : stream[n] # Header
                /\ Len(stream) = 1 + StepsRun
                /\ \A n \in 2 .. (Len(stream) - 1) : stream[n].date < stream[n + 1].date

(***************************************************************************)
(* C31: the assignment of the special points.  Once every process of the    *)
(* run is constructed, every registered point inside the dem is held by     *)
(* exactly one worker of the run: the worker whose columns of the dem       *)
(* (slice of the process, then slice of the worker) contain the column of   *)
(* the point; it is held there with its column counted from the first       *)
(* column of that worker and its row unchanged.                             *)
(***************************************************************************)
\* the first column of the dem that worker ii of process p simulates
GlobalStart(p, ii) == part[p].offset + slices[p][ii].offset
Owns(p, ii, c) ==
    /\ slices[p][ii].length > 0
    /\ GlobalStart(p, ii) <= c[1] /\ c[1] < GlobalStart(p, ii) + slices[p][ii].length
\* the points worker ii of process p holds, as cells of the dem
HeldBy(p, ii) ==
    {<<worker_pts[p][ii][k][1] + GlobalStart(p, ii), worker_pts[p][ii][k][2]>> :
        k \in 1 .. Len(worker_pts[p][ii])}

C31_Original ==
    AllConstructed =>
        \A k \in 1 .. Len(pts) :
            pts[k][1] < dimx =>
                \A p \in Active, ii \in WorkerIds :
                    /\ Owns(p, ii, pts[k]) <=> pts[k] \in HeldBy(p, ii)
                    /\ Cardinality({j \in 1 .. Len(worker_pts[p][ii]) :
                          worker_pts[p][ii][j] =
                              <<pts[k][1] - GlobalStart(p, ii), pts[k][2]>>}) =
                       (IF Owns(p, ii, pts[k]) THEN 1 ELSE 0)

(***************************************************************************)
(* The initial snow cover.  readInitalSnowCover runs in the constructor of  *)
(* every process, after the configuration is read and the special points    *)
(* are registered: it reads one profile per cell of a slice of the dem and  *)
(* hands the slice to the process that simulates it.                        *)
(***************************************************************************)
outsideInitialState == <<coordinator, group, layout, settings, registration, pointOutput,
                        lifecycle, plugin>>

\* the rows of the dem
dimy == MaxDimY

\* a profile on disk: not there, readable, or readable with a first layer that
\* was deposited after the start of the run
ProfileStates == {"missing", "ok", "young"}
\* what one cell of the dem may be, the others having both profiles in order
CellKinds == {[skip |-> TRUE, GRID |-> "ok", LUS |-> "ok"]}
             \cup [skip : {FALSE}, GRID : ProfileStates, LUS : ProfileStates]

\* nodata cells, water bodies and the like are not simulated
skipThisCell(c) == profiles[c].skip
\* whether the cell is one of the special points
is_special(points, ix, iy) == \E k \in 1 .. Len(points) : points[k] = <<ix, iy>>
\* whether the profile keyed by the coordinates of the cell is on disk
snowCoverExists(c) == profiles[c].GRID # "missing"
\* the reader of either format fails on a profile that is not there
readerThrows(state) == state = "missing"

\* the profile a cell is initialised from whatever its coordinates say
readSnowCoverKey_LandUseOnly(c, special) == "LUS"
\* the profile a cell is initialised from: keyed by its coordinates (GRID) or by
\* its land-use class (LUS)
readSnowCoverKey(c, special) ==
    IF special /\ ~is_restart
    THEN (IF snowCoverExists(c) THEN "GRID" ELSE "LUS")
    ELSE (IF is_restart THEN "GRID" ELSE "LUS")

\* readSnowCover without the check of the first layer's date
readSnowCover_AnyDate(c, type, special) ==
    LET key == readSnowCoverKey(c, special)
    IN  [io |-> IF type = "SMET" THEN "smetIO" ELSE "asciiIO",
         key |-> key,
         thrown |-> IF readerThrows(profiles[c][key]) THEN "reader" ELSE "none"]
\* readSnowCover: the reader of the configured format on the chosen profile, then
\* the check that its first layer is not younger than the start of the run
readSnowCover(c, type, special) ==
    LET key == readSnowCoverKey(c, special)
    IN  [io |-> IF type = "SMET" THEN "smetIO" ELSE "asciiIO",
         key |-> key,
         thrown |-> IF readerThrows(profiles[c][key]) THEN "reader"
                    ELSE IF profiles[c][key] = "young" THEN "IOException"
                    ELSE "none"]

\* the cells of the slice of process ii, column by column
SliceCells_ColumnMajor(ii) ==
    LET sl == getArraySliceParams(dimx, size, ii)
    IN  [k \in 1 .. (dimy * sl.length) |->
            <<sl.offset + ((k - 1) \div dimy), (k - 1) % dimy>>]
\* the cells of the slice of process ii, row by row
SliceCells(ii) ==
    LET sl == getArraySliceParams(dimx, size, ii)
    IN  [k \in 1 .. (dimy * sl.length) |->
            <<sl.offset + ((k - 1) % sl.length), (k - 1) \div sl.length>>]

\* the entry of a cell: absent for a skipped cell, else a station initialised from
\* the profile that was read
Station(c) ==
    IF skipThisCell(c)
    THEN [cell |-> c, present |-> FALSE, io |-> "", key |-> ""]
    ELSE LET r == readSnowCover(c, sno_type, is_special(pts, c[1], c[2]))
         IN  [cell |-> c, present |-> TRUE, io |-> r.io, key |-> r.key]
\* whether the reading of the cell ends in an exception
Throws(c) ==
    /\ ~skipThisCell(c)
    /\ readSnowCover(c, sno_type, is_special(pts, c[1], c[2])).thrown # "none"

\* one turn of the loop over the processes, in a process that reads: the slice of
\* process reading[p] is read cell by cell; the first exception leaves the
\* constructor as an IOException; a slice read to its end is kept, or sent to its
\* process and deleted here
readSliceAt(p) ==
    /\ p \in Active /\ ipc[p] = "reading" /\ reading[p] < size
    /\ LET ii == reading[p]
           cells == SliceCells(ii)
       IN  IF do_io_locally /\ ii # p
           THEN /\ reading' = [reading EXCEPT ![p] = ii + 1]
                /\ UNCHANGED <<ipc, snow_stations, wire, sentTo>>
           ELSE IF \E k \in 1 .. Len(cells) : Throws(cells[k])
           THEN /\ ipc' = [ipc EXCEPT ![p] = "IOException"]
                /\ UNCHANGED <<reading, snow_stations, wire, sentTo>>
           ELSE /\ reading' = [reading EXCEPT ![p] = ii + 1]
                /\ IF ii = master_rank \/ do_io_locally
                   THEN /\ snow_stations' = [snow_stations EXCEPT
                               ![p] = [k \in 1 .. Len(cells) |-> Station(cells[k])]]
                        /\ UNCHANGED <<wire, sentTo>>
                   ELSE /\ wire' = [wire EXCEPT
                               ![ii] = Append(@, [k \in 1 .. Len(cells) |-> Station(cells[k])])]
                        /\ sentTo' = [sentTo EXCEPT ![p] = Append(@, ii)]
                        /\ UNCHANGED snow_stations
                /\ UNCHANGED ipc
    /\ UNCHANGED <<is_restart, sno_type, profiles, received>>
    /\ UNCHANGED outsideInitialState

\* the end of the loop: the stations are returned to the constructor
returnStationsAt(p) ==
    /\ p \in Active /\ ipc[p] = "reading" /\ reading[p] = size
    /\ ipc' = [ipc EXCEPT ![p] = "read"]
    /\ UNCHANGED <<is_restart, sno_type, profiles, reading, snow_stations, wire, sentTo,
                   received>>
    /\ UNCHANGED outsideInitialState

\* a process that does not read waits for its slice from the master
receiveStationsAt(p) ==
    /\ p \in Active /\ ipc[p] = "receiving" /\ wire[p] # <<>>
    /\ snow_stations' = [snow_stations EXCEPT ![p] = Head(wire[p])]
    /\ wire' = [wire EXCEPT ![p] = Tail(@)]
    /\ received' = [received EXCEPT ![p] = @ + 1]
    /\ ipc' = [ipc EXCEPT ![p] = "read"]
    /\ UNCHANGED <<is_restart, sno_type, profiles, reading, sentTo>>
    /\ UNCHANGED outsideInitialState

\* every process at the call of readInitalSnowCover: at most one cell of the dem
\* is out of the ordinary, and it may be a special point
InitInitialState ==
    /\ \E odd \in Cells, special \in BOOLEAN :
          /\ InitMembers(IF special THEN <<odd>> ELSE <<>>)
          /\ \E kind \in CellKinds :
                profiles = [c \in Cells |-> IF c = odd THEN kind
                                          ELSE [skip |-> FALSE, GRID |-> "ok", LUS |-> "ok"]]
    /\ vec_pts = pts /\ ppc = "registered" /\ logged = <<>>
    /\ NoPointOutput
    /\ \E sz \in 1 .. NbProcs : InitLayout(MaxDimX, sz, 1)
    /\ \E mr \in Active, io \in BOOLEAN : InitGroup(mr, io, <<>>, [drift |-> FALSE, eb |-> FALSE])
    /\ glacier_katabatic_flow = FALSE /\ snow_write = FALSE
    /\ is_restart \in BOOLEAN /\ sno_type \in {"SMET", "SNOOLD"}
    /\ ipc = [p \in Ranks |-> IF p \notin Active THEN "absent"
                              ELSE IF p = master_rank \/ do_io_locally THEN "reading"
                              ELSE "receiving"]
    /\ reading = [p \in Ranks |-> 0]
    /\ snow_stations = [p \in Ranks |-> <<>>]
    /\ wire = [p \in Ranks |-> <<>>]
    /\ sentTo = [p \in Ranks |-> <<>>]
    /\ received = [p \in Ranks |-> 0]
    /\ NoLifecycle
    /\ NoPlugin

NextInitialState ==
    \E p \in Ranks : readSliceAt(p) \/ returnStationsAt(p) \/ receiveStationsAt(p)

SpecInitialState == InitInitialState /\ [][NextInitialState]_vars

(***************************************************************************)
(* C32: the profile a cell is initialised from is chosen the same way for   *)
(* both formats: on a restart always the profile keyed by the coordinates   *)
(* of the cell; on a cold start the profile keyed by the coordinates for a  *)
(* special point that has one, and the profile keyed by the land-use class  *)
(* for a special point that has none and for every other cell.  The format  *)
(* only selects the reader.                                                 *)
(***************************************************************************)
\* every station a process holds or is about to receive
StationsRead ==
    UNION {{snow_stations[p][k] : k \in 1 .. Len(snow_stations[p])} : p \in Active}
    \cup UNION {UNION {{wire[p][m][k] : k \in 1 .. Len(wire[p][m])} :
                          m \in 1 .. Len(wire[p])} : p \in Active}
SpecialCell(c) == \E k \in 1 .. Len(pts) : pts[k] = c

C32_SourceOfInitialState ==
    \A e \in StationsRead :
        e.present =>
            /\ e.io = (IF sno_type = "SMET" THEN "smetIO" ELSE "asciiIO")
            /\ is_restart => e.key = "GRID"
            /\ (~is_restart /\ SpecialCell(e.cell) /\ profiles[e.cell].GRID # "missing")
                  => e.key = "GRID"
            /\ (~is_restart /\ SpecialCell(e.cell) /\ profiles[e.cell].GRID = "missing")
                  => e.key = "LUS"
            /\ (~is_restart /\ ~SpecialCell(e.cell)) => e.key = "LUS"

\* a cold start in the other format with a special point read from the profile of
\* its coordinates, another cell being read from the profile of its land-use class
C32_Witness ==
    /\ ~is_restart /\ sno_type = "SNOOLD"
    /\ \E e \in StationsRead : e.present /\ SpecialCell(e.cell) /\ e.key = "GRID"
    /\ \E e \in StationsRead : e.present /\ ~SpecialCell(e.cell) /\ e.key = "LUS"

(***************************************************************************)
(* C33: a process that reads a non-skipped cell whose chosen profile is     *)
(* missing, or has a first layer deposited after the start of the run,      *)
(* leaves its constructor with an IOException and reads no further; no      *)
(* process is constructed on a slice that holds such a cell.  Processes     *)
(* whose slices were read before the failure are constructed.               *)
(***************************************************************************)
BadCell(c) ==
    /\ ~profiles[c].skip
    /\ LET key == IF is_restart THEN "GRID"
                  ELSE IF SpecialCell(c) /\ profiles[c].GRID # "missing" THEN "GRID"
                  ELSE "LUS"
       IN  profiles[c][key] \in {"missing", "young"}
\* the cells of the slice of process ii
SliceOf(ii) ==
    LET sl == getArraySliceParams(dimx, size, ii)
    IN  {c \in Cells : c[1] >= sl.offset /\ c[1] < sl.offset + sl.length}
\* the slices process p has read to their end
ReadBy(p) == {ii \in Active : ii < reading[p] /\ (do_io_locally => ii = p)}

OthersBelow(n) == SelectSeq([k \in 1 .. n |-> k - 1], LAMBDA r : r # master_rank)

C34_Distribution ==
    /\ do_io_locally =>
          \A p \in Active : sentTo[p] = <<>> /\ wire[p] = <<>> /\ received[p] = 0
    /\ ~do_io_locally =>
          /\ sentTo[master_rank] = OthersBelow(reading[master_rank])
          /\ \A p \in Active \ {master_rank} :
                /\ sentTo[p] = <<>> /\ reading[p] = 0
                /\ received[p] + Len(wire[p]) = (IF p < reading[master_rank] THEN 1 ELSE 0)
                /\ ipc[p] = "read" <=> received[p] = 1
          /\ wire[master_rank] = <<>> /\ received[master_rank] = 0
    /\ \A p \in Active :
          ipc[p] = "read" =>
              LET sl == getArraySliceParams(dimx, size, p)
              IN  /\ Len(snow_stations[p]) = dimy * sl.length
                  /\ \A k \in 1 .. Len(snow_stations[p]) :
                        LET e == snow_stations[p][k]
                        IN  /\ e.cell = <<sl.offset + ((k - 1) % sl.length),
                                          (k - 1) \div sl.length>>
                            /\ e.present = ~profiles[e.cell].skip

\* two processes without local IO, both with their slices, one cell skipped
C34_Witness ==
    /\ ~do_io_locally /\ size = 2
    /\ \A p \in Active : ipc[p] = "read"
    /\ Len(sentTo[master_rank]) = 1
    /\ \E p \in Active : received[p] = 1
    /\ \E e \in StationsRead : ~e.present

(***************************************************************************)
(* C35: in a run of several processes without local IO every process other *)
(* than the master sends its three collections (snow, meteo, flux) once     *)
(* per step; the master writes its own points and then receives and writes  *)
(* the three collections of every other rank, in ascending rank order.  No  *)
(* collection is received for another step than the one it was sent in,     *)
(* and the points of a process are written once per step.  With local IO    *)
(* nothing is sent and every process writes its own points.                 *)
(***************************************************************************)
\* the collections under way are whole triples in the order snow, meteo, flux
WholeTriples(ch) ==
    /\ Len(ch) % Len(PointCollections) = 0
    /\ \A k \in 1 .. Len(ch) :
          /\ ch[k].coll = PointCollections[((k - 1) % Len(PointCollections)) + 1]
          /\ ch[k].at = ch[k - ((k - 1) % Len(PointCollections))].at
\* the steps process p has gone through to their end
StepsDone(p) == {t \in startTime .. (EndTime - 1) : t < rclock[p]}
\* how often the log has the points of process q for step t
TimesWritten(log, q, t) == Cardinality({k \in 1 .. Len(log) : log[k].of = q /\ log[k].at = t})

C35_Original ==
    pts # <<>> =>
        /\ do_io_locally =>
              \A p \in Ranks :
                  /\ channel[p] = <<>>
                  /\ \A k \in 1 .. Len(rwritten[p]) : rwritten[p][k].of = p
                  /\ \A t \in startTime .. (EndTime - 1) : TimesWritten(rwritten[p], p, t) <= 1
                  /\ \A t \in StepsDone(p) : TimesWritten(rwritten[p], p, t) = 1
        /\ ~do_io_locally =>
              /\ channel[master_rank] = <<>>
              /\ \A p \in Ranks \ {master_rank} :
                    WholeTriples(channel[p]) /\ rwritten[p] = <<>>
              /\ \A k \in 1 .. Len(rwritten[master_rank]) :
                    rwritten[master_rank][k].sent = rwritten[master_rank][k].at
              /\ \A q \in Ranks, t \in startTime .. (EndTime - 1) :
                    TimesWritten(rwritten[master_rank], q, t) <= 1
              /\ \A q \in Ranks, t \in StepsDone(master_rank) :
                    TimesWritten(rwritten[master_rank], q, t) = 1

(***************************************************************************)
(* C36: with snow_write off, a process that writes special points writes    *)
(* their .sno files in one step only, the first one with special points,    *)
(* for every collection it writes in that step (its own and, on the master  *)
(* without local IO, the one of every other process), and in no later       *)
(* invocation; with snow_write on, the special-point output never writes    *)
(* them.                                                                    *)
(***************************************************************************)
\* the invocations of write_special_points on process p that wrote the .sno of
\* the points of process q
SnoWrites(p, q) == {k \in 1 .. Len(rwritten[p]) : rwritten[p][k].of = q /\ rwritten[p][k].sno}

C36_Original ==
    \A p \in Ranks :
        /\ snow_write => \A q \in Ranks : SnoWrites(p, q) = {}
        /\ ~snow_write =>
              \A q \in Ranks :
                  /\ Cardinality(SnoWrites(p, q)) <= 1
                  /\ \A k \in SnoWrites(p, q) : rwritten[p][k].at = startTime
                  /\ (\E k \in 1 .. Len(rwritten[p]) : rwritten[p][k].of = q)
                        => SnoWrites(p, q) # {}

(***************************************************************************)
(* C37: for every number of workers and every width of the dem, also with   *)
(* more workers than the slice of the process has columns, every slot of    *)
(* workers that the loops of the coordinator go through holds a worker the  *)
(* constructor created, and no call ends in a dereference of an empty slot. *)
(***************************************************************************)
C37_Original ==
    \A p \in Active :
        lpc[p] # "new" =>
            /\ \A ii \in WorkerIds : workers[p][ii]
            /\ lpc[p] # "crashed"

(***************************************************************************)
(* Construction, copy-assignment and destruction.  A coordinator holds its  *)
(* workers by pointer in the member workers; a worker is the object the     *)
(* constructor of some coordinator created for one of its slots.            *)
(***************************************************************************)
outsideLifecycle == <<coordinator, group, layout, settings, registration, pointOutput,
                      initialState, plugin>>

\* the coordinators a program may declare
NbCoordinators == 3
Coordinators == 1 .. NbCoordinators

NoneCrashed == \A c \in Coordinators : cstate[c] # "crashed"
\* the workers a coordinator points to
Pointees(c) == {held[c][k] : k \in 1 .. Len(held[c])}

\* the constructor: a new worker for every slot (every slice taken as non-empty)
constructCoordinator(c, nw) ==
    /\ NoneCrashed /\ cstate[c] = "unborn"
    /\ cstate' = [cstate EXCEPT ![c] = "alive"]
    /\ held' = [held EXCEPT ![c] = [ii \in 1 .. nw |-> <<c, ii>>]]
    /\ released' = [w \in DOMAIN released \cup {<<c, ii>> : ii \in 1 .. nw} |->
                       IF w \in DOMAIN released THEN released[w] ELSE 0]
    /\ UNCHANGED outsideLifecycle

\* operator=: every member is assigned from the source, the vector of worker
\* pointers among them; nothing is deleted and nothing is cloned
assign(target, source) ==
    /\ NoneCrashed /\ cstate[target] = "alive" /\ cstate[source] = "alive"
    /\ IF target = source
       THEN UNCHANGED held
       ELSE held' = [held EXCEPT ![target] = held[source]]
    /\ UNCHANGED <<cstate, released, outsideLifecycle>>

\* the destructor: every pointer of workers is deleted and popped; deleting a
\* worker that was deleted before is undefined: the process crashes there, or
\* the second delete goes through
destroy(c, crashes) ==
    /\ NoneCrashed /\ cstate[c] = "alive"
    /\ IF crashes /\ \E w \in Pointees(c) : released[w] > 0
       THEN /\ cstate' = [cstate EXCEPT ![c] = "crashed"]
            /\ UNCHANGED <<held, released>>
       ELSE /\ cstate' = [cstate EXCEPT ![c] = "destroyed"]
            /\ held' = [held EXCEPT ![c] = <<>>]
            /\ released' = [w \in DOMAIN released |->
                               released[w] + (IF w \in Pointees(c) THEN 1 ELSE 0)]
    /\ UNCHANGED outsideLifecycle

InitLifecycle ==
    /\ InitMembers(<<>>)
    /\ vec_pts = pts /\ ppc = "registered" /\ logged = <<>>
    /\ NoPointOutput
    /\ NoInitialState
    /\ InitGroup(0, TRUE, <<>>, [drift |-> FALSE, eb |-> FALSE])
    /\ InitLayout(1, 1, 1)
    /\ glacier_katabatic_flow = FALSE /\ snow_write = FALSE
    /\ cstate = [c \in Coordinators |-> "unborn"]
    /\ held = [c \in Coordinators |-> <<>>]
    /\ released = [w \in {} |-> 0]
    /\ NoPlugin

NextLifecycle ==
    \/ \E c \in Coordinators, nw \in 1 .. NbWorkers : constructCoordinator(c, nw)
    \/ \E target \in Coordinators, source \in Coordinators : assign(target, source)
    \/ \E c \in Coordinators, crashes \in BOOLEAN : destroy(c, crashes)

SpecLifecycle == InitLifecycle /\ [][NextLifecycle]_vars

(***************************************************************************)
(* C38: after any sequence of constructions, copy-assignments and           *)
(* destructions every worker that was created and not deleted is pointed    *)
(* to by exactly one living coordinator, no worker is deleted twice, a      *)
(* deleted worker is pointed to by no living coordinator, and no            *)
(* destructor runs into a worker that is gone.                              *)
(***************************************************************************)
Owners(w) == {c \in Coordinators : cstate[c] = "alive" /\ w \in Pointees(c)}

C38_Original ==
    /\ NoneCrashed
    /\ \A w \in DOMAIN released :
          /\ released[w] <= 1
          /\ released[w] = 0 => Cardinality(Owners(w)) = 1
          /\ released[w] = 1 => Owners(w) = {}

(***************************************************************************)
(* The reader of the COSMO XML files.  scanMeteoPath lists the directory,   *)
(* sorts the file names and caches every file with the date found in its    *)
(* name; readMeteoData goes through the cache from the file that holds the  *)
(* start of the period asked for.                                           *)
(***************************************************************************)
outsidePlugin == <<coordinator, group, layout, settings, registration, pointOutput,
                   initialState, lifecycle>>

\* the longest file name, the most files of a directory, and the most turns of
\* the loop that are followed
MaxNameLen == 2
MaxFiles == 2
MaxVisits == 3

\* the characters of a file name, in the order of their codes
Alphabet == <<"1", "2", "p">>
Digits == {"1", "2"}
Code(ch) == CHOOSE i \in 1 .. Len(Alphabet) : Alphabet[i] = ch
FileNames == UNION {[1 .. n -> {Alphabet[i] : i \in 1 .. Len(Alphabet)}] : n \in 1 .. MaxNameLen}
Listings == UNION {{{f[k] : k \in 1 .. n} : f \in [1 .. n -> FileNames]} : n \in 0 .. MaxFiles}
Prefixes == {<<>>, <<"p">>}

npos == -1
\* std::string::find_first_of: the first position from pos on, counted from 0,
\* that holds one of the characters, or npos
find_first_of(str, chars, pos) ==
    LET hits == {k \in pos .. (Len(str) - 1) : str[k + 1] \in chars}
    IN  IF hits = {} THEN npos ELSE CHOOSE k \in hits : \A j \in hits : k <= j
\* std::string::substr(pos, n)
substr(str, pos, n) == SubSeq(str, pos + 1, Min(Len(str), pos + n))
\* the comparison of std::string that std::list::sort uses
StringLeq(a, b) ==
    LET diff == {k \in 1 .. Min(Len(a), Len(b)) : a[k] # b[k]}
    IN  IF diff = {} THEN Len(a) <= Len(b)
        ELSE LET k == CHOOSE i \in diff : \A j \in diff : i <= j
             IN  Code(a[k]) < Code(b[k])
RECURSIVE listSort(_)
listSort(names) ==
    IF names = {} THEN <<>>
    ELSE LET first == CHOOSE a \in names : \A b \in names : StringLeq(a, b)
         IN  <<first>> \o listSort(names \ {first})
\* the date read from a text of digits; a text that is no date leaves the date
\* undefined
RECURSIVE convertString(_)
convertString(text) ==
    IF text = <<>> THEN 0
    ELSE IF \E k \in 1 .. Len(text) : text[k] \notin Digits THEN nodata
    ELSE 10 * convertString(SubSeq(text, 1, Len(text) - 1)) + Code(text[Len(text)])

\* the start of scanMeteoPath: the cache is cleared, the directory is listed and
\* the list sorted
scanMeteoPath(listing) ==
    /\ xpc = "new"
    /\ cache_meteo_files' = <<>>
    /\ dirlist' = listSort(listing)
    /\ iter' = 1
    /\ xpc' = "scan"
    /\ UNCHANGED <<meteo_prefix, visited, dateStart, dateEnd, file_idx, nextDate, meteofiles,
                   vecMeteo, outsidePlugin>>

\* one turn of the loop over the list
scanLoop ==
    /\ xpc = "scan" /\ iter <= Len(dirlist) /\ Len(visited) < MaxVisits
    /\ visited' = Append(visited, iter)
    /\ LET filename == dirlist[iter]
           prefix_len == Len(meteo_prefix)
           prefix_pos == IF prefix_len = 0 THEN 0
                         ELSE find_first_of(filename,
                                  {meteo_prefix[k] : k \in 1 .. prefix_len}, 0)
           start_pos == prefix_pos + prefix_len
           date_pos == find_first_of(filename, Digits, start_pos)
       IN  IF prefix_pos = npos \/ start_pos >= Len(filename)
           THEN UNCHANGED <<xpc, iter, cache_meteo_files>>
           ELSE IF date_pos = npos
           THEN /\ xpc' = "out_of_range"
                /\ UNCHANGED <<iter, cache_meteo_files>>
           ELSE /\ cache_meteo_files' = Append(cache_meteo_files,
                       [first |-> convertString(substr(filename, date_pos, 10)),
                        second |-> filename])
                /\ iter' = iter + 1
                /\ UNCHANGED xpc
    /\ UNCHANGED <<meteo_prefix, dirlist, dateStart, dateEnd, file_idx, nextDate, meteofiles,
                   vecMeteo, outsidePlugin>>

\* the iterator has reached the end of the list
scanReturns ==
    /\ xpc = "scan" /\ iter > Len(dirlist)
    /\ xpc' = "scanned"
    /\ UNCHANGED <<meteo_prefix, dirlist, iter, visited, cache_meteo_files, dateStart, dateEnd,
                   file_idx, nextDate, meteofiles, vecMeteo, outsidePlugin>>

\* the rest of the model at rest
PluginOnly ==
    /\ InitMembers(<<>>)
    /\ vec_pts = pts /\ ppc = "registered" /\ logged = <<>>
    /\ NoPointOutput
    /\ NoInitialState
    /\ NoLifecycle
    /\ InitGroup(0, TRUE, <<>>, [drift |-> FALSE, eb |-> FALSE])
    /\ InitLayout(1, 1, 1)
    /\ glacier_katabatic_flow = FALSE /\ snow_write = FALSE

InitScan ==
    /\ PluginOnly
    /\ xpc = "new" /\ meteo_prefix \in Prefixes
    /\ dirlist = <<>> /\ iter = 0 /\ visited = <<>> /\ cache_meteo_files = <<>>
    /\ dateStart = 0 /\ dateEnd = 0 /\ file_idx = 0 /\ nextDate = 0
    /\ meteofiles = <<>> /\ vecMeteo = <<>>

NextScan ==
    \/ \E listing \in Listings : scanMeteoPath(listing)
    \/ scanLoop
    \/ scanReturns

SpecScan == InitScan /\ [][NextScan]_vars

(***************************************************************************)
(* C40: scanMeteoPath comes to its end for every directory and every        *)
(* prefix; it looks at every file name once, whether or not the name holds  *)
(* the prefix and whether or not anything follows the prefix; when it       *)
(* returns, the cache holds the accepted files in the order of their names. *)
(***************************************************************************)
C40_Original ==
    /\ \A i \in 1 .. Len(visited), j \in 1 .. Len(visited) :
          visited[i] = visited[j] => i = j
    /\ xpc = "scanned" =>
          /\ visited = [k \in 1 .. Len(dirlist) |-> k]
          /\ \A i \in 1 .. Len(cache_meteo_files), j \in 1 .. Len(cache_meteo_files) :
                i < j => StringLeq(cache_meteo_files[i].second, cache_meteo_files[j].second)

(***************************************************************************)
(* readMeteoData, for one station.  Dates count in units of 1/3600 of a     *)
(* day; a file is named by the first and the last date of the data it       *)
(* holds, one data point per unit, in the order of the document.            *)
(***************************************************************************)
\* the latest date
MaxTime == 3
Times == 0 .. MaxTime
\* the data points of a file
FileData(name) == [k \in 1 .. (name[2] - name[1] + 1) |-> name[1] + k - 1]
\* the caches: up to MaxFiles files in the order of their dates
Caches ==
    UNION {{c \in [1 .. n -> [first : Times, second : Times \X Times]] :
               /\ \A k \in 1 .. n : c[k].second[1] = c[k].first /\ c[k].second[2] >= c[k].first
               /\ \A k \in 1 .. (n - 1) : c[k].first < c[k + 1].first} : n \in 0 .. MaxFiles}

\* getFileIdx, counted from 0, for a cache that is not empty
getFileIdx(start_date) ==
    LET n == Len(cache_meteo_files)
        hits == {idx \in 1 .. (n - 1) :
                    /\ start_date >= cache_meteo_files[idx].first
                    /\ start_date < cache_meteo_files[idx + 1].first}
    IN  IF n = 1 THEN 0
        ELSE IF hits # {} THEN (CHOOSE idx \in hits : \A j \in hits : idx <= j) - 1
        ELSE IF start_date < cache_meteo_files[1].first THEN 0
        ELSE n - 1

\* what parseMeteoDataPoint answers for a data point of date t
parseMeteoDataPoint(from, to, t) ==
    IF t < from THEN "read_continue"
    ELSE IF t > to THEN "read_stop"
    ELSE "read_ok"
\* parseMeteoData: the data points of the document in their order, up to the
\* first one that answers read_stop, those that answer read_ok being kept
parseMeteoData(from, to, data) ==
    LET stops == {k \in 1 .. Len(data) : parseMeteoDataPoint(from, to, data[k]) = "read_stop"}
        last == IF stops = {} THEN Len(data)
                ELSE (CHOOSE k \in stops : \A j \in stops : k <= j) - 1
    IN  SelectSeq(SubSeq(data, 1, last),
                  LAMBDA t : parseMeteoDataPoint(from, to, t) = "read_ok")

\* the start of readMeteoData for the period from .. to
readMeteoData(from, to) ==
    /\ xpc = "cached" /\ from <= to
    /\ dateStart' = from /\ dateEnd' = to
    /\ vecMeteo' = <<>>
    /\ IF cache_meteo_files = <<>>
       THEN xpc' = "InvalidArgumentException" /\ UNCHANGED file_idx
       ELSE xpc' = "reading" /\ file_idx' = getFileIdx(from)
    /\ UNCHANGED <<meteo_prefix, dirlist, iter, visited, cache_meteo_files, nextDate,
                   meteofiles, outsidePlugin>>

\* one turn of the loop over the files: the file is read up to the date before
\* the start of the next file, or up to the end of the period if it is the last
\* file.  The search for the vector of the station looks at the first element
\* of every vector there is; on an empty vector this is undefined, and the
\* station is taken as found, or as not found, or the process crashes
readFile(outcome) ==
    /\ xpc = "reading"
    /\ LET nr_files == Len(cache_meteo_files)
           next == IF file_idx + 1 < nr_files
                   THEN cache_meteo_files[file_idx + 2].first - 1
                   ELSE dateEnd
           read == parseMeteoData(dateStart, next,
                                  FileData(cache_meteo_files[file_idx + 1].second))
           defined == vecMeteo = <<>> \/ vecMeteo[1] # <<>>
           found == IF defined THEN vecMeteo # <<>> ELSE outcome = "found"
       IN  /\ defined => outcome = "found"
           /\ nextDate' = next
           /\ meteofiles' = Append(meteofiles, file_idx)
           /\ IF ~defined /\ outcome = "crash"
              THEN /\ xpc' = "crashed"
                   /\ UNCHANGED <<vecMeteo, file_idx>>
              ELSE /\ vecMeteo' = IF found THEN [vecMeteo EXCEPT ![1] = @ \o read]
                                  ELSE Append(vecMeteo, read)
                   /\ file_idx' = file_idx + 1
                   /\ xpc' = IF file_idx + 1 < nr_files /\ next <= dateEnd
                             THEN "reading" ELSE "read"
    /\ UNCHANGED <<meteo_prefix, dirlist, iter, visited, cache_meteo_files, dateStart,
                   dateEnd, outsidePlugin>>

InitRead ==
    /\ PluginOnly
    /\ xpc = "cached" /\ meteo_prefix = <<>>
    /\ dirlist = <<>> /\ iter = 0 /\ visited = <<>>
    /\ cache_meteo_files \in Caches
    /\ dateStart = 0 /\ dateEnd = 0 /\ file_idx = 0 /\ nextDate = 0
    /\ meteofiles = <<>> /\ vecMeteo = <<>>

NextRead ==
    \/ \E from \in Times, to \in Times : readMeteoData(from, to)
    \/ \E outcome \in {"found", "notfound", "crash"} : readFile(outcome)

SpecRead == InitRead /\ [][NextRead]_vars

(***************************************************************************)
(* C39: readMeteoData opens the files in the order of their dates, from the *)
(* file chosen for the start of the period on; the data of the station      *)
(* come in one vector, in increasing order of their dates, no date twice,   *)
(* and every date lies between the start and the end of the period.         *)
(***************************************************************************)
C39_Original ==
    xpc \in {"reading", "read"} =>
        /\ \A k \in 1 .. Len(meteofiles) : meteofiles[k] = meteofiles[1] + k - 1
        /\ \A v \in 1 .. Len(vecMeteo) :
              /\ \A k \in 1 .. (Len(vecMeteo[v]) - 1) : vecMeteo[v][k] < vecMeteo[v][k + 1]
              /\ \A k \in 1 .. Len(vecMeteo[v]) :
                    dateStart <= vecMeteo[v][k] /\ vecMeteo[v][k] <= dateEnd

=========================================================================
